---- MODULE Spec2Model ----
(***************************************************************************)
(* A model of console_engine: the Screen buffer and its drawing           *)
(* primitives (src/src/screen.rs), the engine's differential draw and its *)
(* per-frame key classification (src/src/lib.rs, src/src/utils.rs).       *)
(*                                                                         *)
(* A Screen is a record [width, height, screen, empty, panic]: `screen`   *)
(* is the row-major Vec<Pixel> (Rust index i is TLA+ index i+1), `empty`  *)
(* the cached flag, and `panic` a ghost flag set when the Rust code would *)
(* abort the call (an index outside the Vec, a division by zero, an       *)
(* arithmetic overflow in a build that checks it).                         *)
(***************************************************************************)
EXTENDS Integers, Sequences, FiniteSets, TLC

VARIABLES
    scr,                \* the Screen a drawing call is applied to
    pre,                \* that Screen as it was before the last call
    call,               \* the last call: its name and its arguments
    ret,                \* what the last call returned (get_pxl, extract)
    width,              \* ConsoleEngine.width
    height,             \* ConsoleEngine.height
    screen,             \* ConsoleEngine.screen
    screen_last_frame,  \* ConsoleEngine.screen_last_frame
    stdout,             \* the commands the last draw() queued, in order
    draws,              \* ghost: what happened since the last draw()
    keys_pressed,       \* ConsoleEngine.keys_pressed
    keys_held,          \* ConsoleEngine.keys_held
    keys_released,      \* ConsoleEngine.keys_released
    frames,             \* ghost: the key events captured in the last two frames
    terminal,           \* the terminal's size, <<columns, rows>>
    time_limit,         \* ConsoleEngine.time_limit, in clock ticks
    frame_count,        \* ConsoleEngine.frame_count
    clock               \* the time since ConsoleEngine.instant and where
                        \* wait_frame is in its polling loop

vars == <<scr, pre, call, ret, width, height, screen, screen_last_frame,
          stdout, draws, keys_pressed, keys_held, keys_released, frames,
          terminal, time_limit, frame_count, clock>>

screenVars == <<scr, pre, call, ret>>
engineVars == <<width, height, screen, screen_last_frame, stdout, draws>>
keyVars    == <<keys_pressed, keys_held, keys_released, frames>>
envVars    == <<terminal, time_limit, frame_count, clock>>

----------------------------------------------------------------------------
(* Bounds of the model. *)

\* Screens under test are w x h with w, h in 0..MaxDim.
MaxDim == 3
\* Coordinates reach MaxOut cells beyond every edge of the largest screen.
MaxOut == 1
\* Circle radii are 0..MaxRadius.
MaxRadius == 2
\* Printed texts have at most MaxText characters.
MaxText == 4
\* Texts are printed on screens of w x h with w, h in 0..MaxTextDim.
MaxTextDim == 2
\* The engine's screen is w x h with w, h in 0..MaxEngineDim.
MaxEngineDim == 2
\* An engine run makes at most MaxEdits calls that are not draw ...
MaxEdits == 2
\* ... and at most MaxDraws calls of draw.
MaxDraws == 2
\* At most MaxCaptured key events are captured in one frame.
MaxCaptured == 2
\* The clock counts TicksPerMs ticks in a millisecond.
TicksPerMs == 2
\* The frame duration is 0..MaxLimitMs milliseconds.
MaxLimitMs == 2
\* The clock is followed until MaxLate ticks past the frame duration.
MaxLate == 1
\* The largest value of the frame counter, in place of usize::MAX.
MaxFrameCount == 3

Coords == (0 - MaxOut)..(MaxDim - 1 + MaxOut)
Dims   == 0..MaxDim

----------------------------------------------------------------------------
(* Characters, colors and pixels. *)

NUL   == 0      \* '\u{0}'
TAB   == 9      \* '\t'
LF    == 10     \* '\n'
CR    == 13     \* '\r'
SPACE == 32     \* ' '
HASH  == 35     \* '#'
STAR  == 42     \* '*'
WIDE  == 128077 \* a double-width character (an emoji)
PLUS  == 43     \* '+'
MINUS == 45     \* '-'
BAR   == 124    \* '|'
ChrO  == 79     \* 'O'
ChrX  == 88     \* 'X'

Colors == {"Reset", "Red", "Blue"}

pxl_fbg(value, fg, bg) == [chr |-> value, fg |-> fg, bg |-> bg]

pxl(value) == pxl_fbg(value, "Reset", "Reset")

\* `v as usize` of a signed value: a negative one wraps to a value far
\* beyond the length of any buffer.
AsUsize(v) == IF v >= 0 THEN v ELSE v + 2^30

Min(a, b) == IF a < b THEN a ELSE b
Max(a, b) == IF a > b THEN a ELSE b
Abs(a)    == IF a < 0 THEN 0 - a ELSE a

----------------------------------------------------------------------------
(* Screen: construction and single cells. *)

new_fill(w, h, pixel) ==
    [width |-> w, height |-> h, screen |-> [i \in 1..(w * h) |-> pixel],
     empty |-> FALSE, panic |-> FALSE]

new(w, h) == new_fill(w, h, pxl(SPACE))

new_empty(w, h) == [new_fill(w, h, pxl(NUL)) EXCEPT !.empty = TRUE]

\* from_vec asserts the length; a failed assertion is a panic.
from_vec(vec, w, h) ==
    [width |-> w, height |-> h, screen |-> vec, empty |-> FALSE,
     panic |-> Len(vec) # w * h]

coord_to_index(s, x, y) == AsUsize(y * s.width + x)

\* self.screen[index] = pixel: an index outside the Vec panics.
IndexWrite(s, index, pixel) ==
    IF s.panic THEN s
    ELSE IF index < Len(s.screen)
         THEN [s EXCEPT !.screen[index + 1] = pixel]
         ELSE [s EXCEPT !.panic = TRUE]

\* set_pxl without the two lower-bound tests.
set_pxl_no_lower(s, x, y, character) ==
    IF x < s.width /\ y < s.height
    THEN IndexWrite(s, coord_to_index(s, x, y), character)
    ELSE s

set_pxl(s, x, y, character) ==
    IF x >= 0 /\ y >= 0 /\ x < s.width /\ y < s.height
    THEN IndexWrite(s, coord_to_index(s, x, y), character)
    ELSE s

\* The cell at (x, y) of a screen, for 0 <= x < width and 0 <= y < height.
Cell(s, x, y) == s.screen[y * s.width + x + 1]

InBounds(s, x, y) == x >= 0 /\ y >= 0 /\ x < s.width /\ y < s.height

----------------------------------------------------------------------------
(* Screen: lines. *)

RECURSIVE h_line_loop(_, _, _, _, _)
h_line_loop(s, i, end, y, character) ==
    IF s.panic \/ i >= end THEN s
    ELSE h_line_loop(set_pxl(s, i, y, character), i + 1, end, y, character)

h_line(s, start_x, start_y, end_x, character) ==
    LET start == IF start_x > end_x THEN end_x ELSE start_x
        end   == IF start_x > end_x THEN start_x + 1 ELSE end_x + 1
    IN h_line_loop(s, start, end, start_y, character)

RECURSIVE v_line_loop(_, _, _, _, _)
v_line_loop(s, j, end, x, character) ==
    IF j >= end THEN s
    ELSE v_line_loop(set_pxl(s, x, j, character), j + 1, end, x, character)

v_line(s, start_x, start_y, end_y, character) ==
    LET start == IF start_y > end_y THEN end_y ELSE start_y
        end   == IF start_y > end_y THEN start_y + 1 ELSE end_y + 1
    IN v_line_loop(s, start, end, start_x, character)

RECURSIVE line_low_loop(_, _, _, _, _, _, _, _, _)
line_low_loop(s, x, x1, y, d, dx, dy, yi, character) ==
    IF x > x1 THEN s
    ELSE LET s1 == set_pxl(s, x, y, character)
             y2 == IF d > 0 THEN y + yi ELSE y
             d2 == (IF d > 0 THEN d - 2 * dx ELSE d) + 2 * dy
         IN line_low_loop(s1, x + 1, x1, y2, d2, dx, dy, yi, character)

line_low(s, x0, y0, x1, y1, character) ==
    LET dx == x1 - x0
        yi == IF y1 - y0 < 0 THEN 0 - 1 ELSE 1
        dy == Abs(y1 - y0)
    IN line_low_loop(s, x0, x1, y0, 2 * dy - dx, dx, dy, yi, character)

RECURSIVE line_high_loop(_, _, _, _, _, _, _, _, _)
line_high_loop(s, y, y1, x, d, dx, dy, xi, character) ==
    IF y > y1 THEN s
    ELSE LET s1 == set_pxl(s, x, y, character)
             x2 == IF d > 0 THEN x + xi ELSE x
             d2 == (IF d > 0 THEN d - 2 * dy ELSE d) + 2 * dx
         IN line_high_loop(s1, y + 1, y1, x2, d2, dx, dy, xi, character)

line_high(s, x0, y0, x1, y1, character) ==
    LET dy == y1 - y0
        xi == IF x1 - x0 < 0 THEN 0 - 1 ELSE 1
        dx == Abs(x1 - x0)
    IN line_high_loop(s, y0, y1, x0, 2 * dx - dy, dx, dy, xi, character)

\* line that walks from the start point as given, never swapping the
\* endpoints.
line_no_swap(s, start_x, start_y, end_x, end_y, character) ==
    IF end_y - start_y = 0 THEN h_line(s, start_x, start_y, end_x, character)
    ELSE IF end_x - start_x = 0 THEN v_line(s, start_x, start_y, end_y, character)
    ELSE IF Abs(end_y - start_y) < Abs(end_x - start_x)
         THEN line_low(s, start_x, start_y, end_x, end_y, character)
         ELSE line_high(s, start_x, start_y, end_x, end_y, character)

line(s, start_x, start_y, end_x, end_y, character) ==
    LET delta_x == end_x - start_x
        delta_y == end_y - start_y
    IN IF delta_y = 0 THEN h_line(s, start_x, start_y, end_x, character)
       ELSE IF delta_x = 0 THEN v_line(s, start_x, start_y, end_y, character)
       ELSE IF Abs(end_y - start_y) < Abs(end_x - start_x)
            THEN IF start_x > end_x
                 THEN line_low(s, end_x, end_y, start_x, start_y, character)
                 ELSE line_low(s, start_x, start_y, end_x, end_y, character)
            ELSE IF start_y > end_y
                 THEN line_high(s, end_x, end_y, start_x, start_y, character)
                 ELSE line_high(s, start_x, start_y, end_x, end_y, character)

----------------------------------------------------------------------------
(* Screen: rectangles, circles, triangles, compositing. *)

rect(s, start_x, start_y, end_x, end_y, character) ==
    LET s1 == h_line(s, start_x, start_y, end_x, character)
        s2 == v_line(s1, end_x, start_y, end_y, character)
        s3 == h_line(s2, end_x, end_y, start_x, character)
    IN v_line(s3, start_x, end_y, start_y, character)

\* BorderStyle::new_simple()
new_simple ==
    [corner_top_right |-> pxl(PLUS), corner_top_left |-> pxl(PLUS),
     corner_bottom_left |-> pxl(PLUS), corner_bottom_right |-> pxl(PLUS),
     top_bottom |-> pxl(MINUS), left_right |-> pxl(BAR)]

rect_border(s, start_x, start_y, end_x, end_y, rect_style) ==
    LET s1 == h_line(s, start_x, start_y, end_x, rect_style.top_bottom)
        s2 == v_line(s1, end_x, start_y, end_y, rect_style.left_right)
        s3 == h_line(s2, end_x, end_y, start_x, rect_style.top_bottom)
        s4 == v_line(s3, start_x, end_y, start_y, rect_style.left_right)
        s5 == set_pxl(s4, start_x, start_y, rect_style.corner_top_left)
        s6 == set_pxl(s5, end_x, start_y, rect_style.corner_top_right)
        s7 == set_pxl(s6, start_x, end_y, rect_style.corner_bottom_left)
    IN set_pxl(s7, end_x, end_y, rect_style.corner_bottom_right)

RECURSIVE fill_rect_loop(_, _, _, _, _, _)
fill_rect_loop(s, y, y1, start_x, end_x, character) ==
    IF s.panic \/ y >= y1 THEN s
    ELSE fill_rect_loop(h_line(s, start_x, y, end_x, character),
                        y + 1, y1, start_x, end_x, character)

fill_rect(s, start_x, start_y, end_x, end_y, character) ==
    LET y0 == IF start_y < end_y THEN start_y ELSE end_y
        y1 == IF start_y < end_y THEN end_y + 1 ELSE start_y + 1
    IN fill_rect_loop(s, y0, y1, start_x, end_x, character)

\* The eight set_pxl calls of one step of circle.
circle_points(s, x, y, rx, ry, character) ==
    LET s1 == set_pxl(s, x + rx, y - ry, character)
        s2 == set_pxl(s1, x + ry, y - rx, character)
        s3 == set_pxl(s2, x + ry, y + rx, character)
        s4 == set_pxl(s3, x + rx, y + ry, character)
        s5 == set_pxl(s4, x - rx, y + ry, character)
        s6 == set_pxl(s5, x - ry, y + rx, character)
        s7 == set_pxl(s6, x - ry, y - rx, character)
    IN set_pxl(s7, x - rx, y - ry, character)

RECURSIVE circle_loop(_, _, _, _, _, _, _)
circle_loop(s, x, y, rx, ry, distance, character) ==
    IF ry < rx THEN s
    ELSE LET s1 == circle_points(s, x, y, rx, ry, character)
         IN IF distance < 0
            THEN circle_loop(s1, x, y, rx + 1, ry,
                             distance + 4 * rx + 6, character)
            ELSE circle_loop(s1, x, y, rx + 1, ry - 1,
                             distance + 4 * (rx - ry) + 10, character)

circle(s, x, y, radius, character) ==
    IF radius = 0 THEN s
    ELSE circle_loop(s, x, y, 0, radius, 3 - 2 * radius, character)

\* drawline that stops before end_x: for i in start_x..end_x.
drawline_open(s, start_x, end_x, y, character) ==
    h_line_loop(s, start_x, end_x, y, character)

\* The drawline closure of fill_circle: for i in start_x..end_x + 1.
drawline(s, start_x, end_x, y, character) ==
    h_line_loop(s, start_x, end_x + 1, y, character)

RECURSIVE fill_circle_loop(_, _, _, _, _, _, _)
fill_circle_loop(s, x, y, rx, ry, distance, character) ==
    IF s.panic \/ ry < rx THEN s
    ELSE LET s1 == drawline(s, x - rx, x + rx, y - ry, character)
             s2 == drawline(s1, x - ry, x + ry, y - rx, character)
             s3 == drawline(s2, x - rx, x + rx, y + ry, character)
             s4 == drawline(s3, x - ry, x + ry, y + rx, character)
         IN IF distance < 0
            THEN fill_circle_loop(s4, x, y, rx + 1, ry,
                                  distance + 4 * rx + 6, character)
            ELSE fill_circle_loop(s4, x, y, rx + 1, ry - 1,
                                  distance + 4 * (rx - ry) + 10, character)

fill_circle(s, x, y, radius, character) ==
    IF radius = 0 THEN s
    ELSE fill_circle_loop(s, x, y, 0, radius, 3 - 2 * radius, character)

triangle(s, x1, y1, x2, y2, x3, y3, character) ==
    LET s1 == line(s, x1, y1, x2, y2, character)
        s2 == line(s1, x2, y2, x3, y3, character)
    IN line(s2, x3, y3, x1, y1, character)

\* The cells of `source` in the order print_screen visits them: k counts
\* them row by row.
RECURSIVE print_screen_loop(_, _, _, _, _)
print_screen_loop(s, x, y, source, k) ==
    IF k >= source.width * source.height THEN s
    ELSE LET i == k % source.width
             j == k \div source.width
         IN print_screen_loop(set_pxl(s, x + i, y + j, Cell(source, i, j)),
                              x, y, source, k + 1)

print_screen(s, x, y, source) ==
    IF source.width = 0 \/ source.height = 0 THEN s
    ELSE print_screen_loop(s, x, y, source, 0)

----------------------------------------------------------------------------
(* Screen: fill, the cached empty flag, resize. *)

fill(s, pixel) ==
    [s EXCEPT !.empty = (pixel.chr = NUL),
              !.screen = [i \in 1..(s.width * s.height) |-> pixel]]

clear(s) == fill(s, pxl(SPACE))

\* The scan of check_empty: TRUE iff no cell holds a character other than NUL.
AllNul(s) == \A i \in 1..Len(s.screen) : s.screen[i].chr = NUL

check_empty(s) == [s EXCEPT !.empty = AllNul(s)]

is_empty(s) == s.empty

\* resize that reads the old buffer with the new width as its stride.
resize_new_stride(s, new_width, new_height) ==
    [s EXCEPT
       !.screen = [k \in 1..(new_width * new_height) |->
                     LET i == (k - 1) % new_width
                         j == (k - 1) \div new_width
                     IN IF /\ i < Min(s.width, new_width)
                           /\ j < Min(s.height, new_height)
                           /\ j * new_width + i < Len(s.screen)
                        THEN s.screen[j * new_width + i + 1]
                        ELSE pxl(SPACE)],
       !.width = new_width,
       !.height = new_height]

resize(s, new_width, new_height) ==
    [s EXCEPT
       !.screen = [k \in 1..(new_width * new_height) |->
                     LET i == (k - 1) % new_width
                         j == (k - 1) \div new_width
                     IN IF i < Min(s.width, new_width) /\ j < Min(s.height, new_height)
                        THEN s.screen[j * s.width + i + 1]
                        ELSE pxl(SPACE)],
       !.width = new_width,
       !.height = new_height]

----------------------------------------------------------------------------
(* Screen: text. *)

\* string.find('\n'): the index (from 1) of the first '\n', 0 when none.
RECURSIVE FindLF(_, _)
FindLF(string, k) ==
    IF k > Len(string) THEN 0
    ELSE IF string[k] = LF THEN k ELSE FindLF(string, k + 1)

\* The loop that drops the lines above the screen when y < 0.
RECURSIVE skip_rows(_, _)
skip_rows(string, delta_y) ==
    IF delta_y <= 0 THEN string
    ELSE LET p == FindLF(string, 1)
         IN IF p = 0 THEN <<>>
            ELSE skip_rows(SubSeq(string, p + 1, Len(string)), delta_y - 1)

\* The character loop of print_fbg; k is the index of the next character.
RECURSIVE print_loop(_, _, _, _, _, _, _, _, _, _, _)
print_loop(s, string, k, x, y, pos, ignore_count, origin_row, delta_x, fg, bg) ==
    IF k > Len(string) \/ s.panic THEN s
    ELSE LET chr == string[k]
         IN IF chr = LF
            THEN IF y + 1 >= s.height THEN s
                 ELSE print_loop(s, string, k + 1, x, y + 1,
                                 coord_to_index(s, Max(0, x), y + 1),
                                 delta_x, origin_row + 1, delta_x, fg, bg)
            ELSE IF chr = CR
            THEN print_loop(s, string, k + 1, x, y,
                            coord_to_index(s, Max(0, x), y),
                            ignore_count, origin_row, delta_x, fg, bg)
            ELSE IF ignore_count <= 0
            THEN IF origin_row = pos \div s.width
                 THEN print_loop(
                        IndexWrite(s, pos,
                                   pxl_fbg(IF chr = TAB THEN SPACE ELSE chr, fg, bg)),
                        string, k + 1, x, y, pos + 1,
                        ignore_count, origin_row, delta_x, fg, bg)
                 ELSE print_loop(s, string, k + 1, x, y, pos,
                                 ignore_count, origin_row, delta_x, fg, bg)
            ELSE print_loop(s, string, k + 1, x, y, pos,
                            ignore_count - 1, origin_row, delta_x, fg, bg)

\* print_fbg whose character loop writes at pos without comparing its row
\* with origin_row, so a long line runs on into the next row.
print_fbg_wrap(s, x, y, string, fg, bg) ==
    IF x < s.width /\ y < s.height /\ s.width > 0
    THEN LET RECURSIVE go(_, _, _, _)
             go(t, k, yy, pos) ==
                 IF k > Len(string) \/ t.panic THEN t
                 ELSE IF string[k] = LF
                      THEN IF yy + 1 >= t.height THEN t
                           ELSE go(t, k + 1, yy + 1,
                                   coord_to_index(t, Max(0, x), yy + 1))
                      ELSE IF string[k] = CR
                      THEN go(t, k + 1, yy, coord_to_index(t, Max(0, x), yy))
                      ELSE go(IndexWrite(t, pos,
                                 pxl_fbg(IF string[k] = TAB THEN SPACE ELSE string[k],
                                         fg, bg)),
                              k + 1, yy, pos + 1)
         IN go(s, 1, Max(0, y), coord_to_index(s, Max(0, x), Max(0, y)))
    ELSE s

print_fbg(s, x, y, string, fg, bg) ==
    IF x < s.width /\ y < s.height
    THEN LET string1 == IF y < 0 THEN skip_rows(string, 0 - y) ELSE string
             y1      == IF y < 0 THEN 0 ELSE y
             pos     == coord_to_index(s, Max(0, x), y1)
             delta_x == IF x < 0 THEN 0 - x ELSE 0
         IN IF s.width = 0
            THEN [s EXCEPT !.panic = TRUE]   \* pos / 0
            ELSE print_loop(s, string1, 1, x, y1, pos, delta_x,
                            pos \div s.width, delta_x, fg, bg)
    ELSE s

print(s, x, y, string) == print_fbg(s, x, y, string, "Reset", "Reset")

----------------------------------------------------------------------------
(* Screen: reading a cell, extracting a rectangle. *)

\* a - b on u32: it overflows when a < b; `value` is then to be read
\* modulo 2^32.
U32Sub(a, b) == [overflow |-> a < b, value |-> a - b]

\* overflow_checks: whether the build panics on arithmetic overflow (a
\* debug build does, a release build wraps).
get_pxl(s, x, y, overflow_checks) ==
    IF x >= 0 /\ y >= 0 /\ x < s.width /\ y < s.height
    THEN [kind |-> "Ok", pixel |-> s.screen[coord_to_index(s, x, y) + 1]]
    ELSE LET bw == U32Sub(s.width, 1)
             bh == U32Sub(s.height, 1)
         IN IF overflow_checks /\ (bw.overflow \/ bh.overflow)
            THEN [kind |-> "Panic"]
            ELSE [kind |-> "Err", coords |-> <<x, y>>,
                  bounds |-> <<bw.value, bh.value>>]

\* The inner loop of extract: source columns i..hi of source row j go to
\* target row y, starting at target column x.
RECURSIVE extract_row(_, _, _, _, _, _, _, _)
extract_row(buf, s, i, hi, j, x, y, x_reversed) ==
    IF i > hi THEN buf
    ELSE LET b1 == IF i >= 0 /\ i < s.width /\ j >= 0 /\ j < s.height
                   THEN IndexWrite(buf, AsUsize(y * buf.width + x),
                                   s.screen[coord_to_index(s, i, j) + 1])
                   ELSE buf
         IN extract_row(b1, s, i + 1, hi, j,
                        IF x_reversed THEN x - 1 ELSE x + 1, y, x_reversed)

RECURSIVE extract_rows(_, _, _, _, _, _, _, _, _)
extract_rows(buf, s, j, hi_y, lo_x, hi_x, y, x_reversed, y_reversed) ==
    IF j > hi_y THEN buf
    ELSE LET x0 == IF x_reversed THEN buf.width - 1 ELSE 0
             b1 == extract_row(buf, s, lo_x, hi_x, j, x0, y, x_reversed)
         IN extract_rows(b1, s, j + 1, hi_y, lo_x, hi_x,
                         IF y_reversed THEN y - 1 ELSE y + 1,
                         x_reversed, y_reversed)

\* extract that copies in source order whatever the order of the
\* coordinates, so a reversed request is not mirrored.
extract_no_mirror(s, start_x, start_y, end_x, end_y, default) ==
    LET tw  == Abs(end_x - start_x) + 1
        th  == Abs(end_y - start_y) + 1
        buf == extract_rows(new_fill(tw, th, default), s,
                            Min(start_y, end_y), Max(start_y, end_y),
                            Min(start_x, end_x), Max(start_x, end_x),
                            0, FALSE, FALSE)
    IN from_vec(buf.screen, tw, th)

\* extract that ignores the source's bounds test on the left and top, so
\* a negative source coordinate indexes the Vec.
extract_no_clip(s, start_x, start_y, end_x, end_y, default) ==
    LET tw == Abs(end_x - start_x) + 1
        th == Abs(end_y - start_y) + 1
    IN from_vec([k \in 1..(tw * th) |->
                   LET i == start_x + ((k - 1) % tw)
                       j == start_y + ((k - 1) \div tw)
                   IN IF i < s.width /\ j < s.height /\ j * s.width + i >= 0
                         /\ j * s.width + i < Len(s.screen)
                      THEN s.screen[j * s.width + i + 1]
                      ELSE default],
                tw, th)

extract(s, start_x, start_y, end_x, end_y, default) ==
    LET target_width  == Abs(end_x - start_x) + 1
        target_height == Abs(end_y - start_y) + 1
        x_reversed    == start_x > end_x
        y_reversed    == start_y > end_y
        buf == extract_rows(new_fill(target_width, target_height, default), s,
                            IF y_reversed THEN end_y ELSE start_y,
                            IF y_reversed THEN start_y ELSE end_y,
                            IF x_reversed THEN end_x ELSE start_x,
                            IF x_reversed THEN start_x ELSE end_x,
                            IF y_reversed THEN target_height - 1 ELSE 0,
                            x_reversed, y_reversed)
        res == from_vec(buf.screen, target_width, target_height)
    IN [res EXCEPT !.panic = @ \/ buf.panic]

----------------------------------------------------------------------------
(* The state every specification starts from. *)

\* A w x h screen whose cells all differ: Screen::from_string("abc...").
Pattern(w, h) == from_vec([i \in 1..(w * h) |-> pxl(ChrO + i - 1)], w, h)

NoCall == [op |-> "none"]
NoRet  == [kind |-> "None"]

ScreenIdle ==
    /\ scr = new(0, 0)
    /\ pre = new(0, 0)
    /\ call = NoCall
    /\ ret = NoRet

\* draws: how many draw calls and other calls were made, the last-frame
\* snapshot the latest draw started from, whether the latest call was a
\* draw, whether the one before it was a draw too, whether draw panicked.
NoDraws ==
    [n |-> 0, edits |-> 0, before |-> new_empty(0, 0), fresh |-> FALSE,
     consecutive |-> FALSE, panic |-> FALSE]

\* frames: the number of frames so far (up to 3), the key events captured
\* in the latest frame and in the one before, and the vectors the latest
\* wait_frame started from.
NoFrames ==
    [n |-> 0, now |-> {}, prev |-> {}, pressed |-> <<>>, held |-> <<>>,
     captured |-> <<>>]

EngineIdle ==
    /\ width = 0
    /\ height = 0
    /\ screen = new(0, 0)
    /\ screen_last_frame = new_empty(0, 0)
    /\ stdout = <<>>
    /\ draws = NoDraws

\* clock: wait_frame is not running and no time has passed.
NoClock ==
    [pc |-> "idle", now |-> 0, elapsed_time |-> 0, deadline |-> 0,
     timeout |-> 0, budget |-> 0, polls |-> 0, events |-> 0,
     captured_keyboard |-> <<>>, frame_before |-> 0, returned |-> FALSE]

EnvIdle ==
    /\ terminal = <<0, 0>>
    /\ time_limit = 0
    /\ frame_count = 0
    /\ clock = NoClock

KeysIdle ==
    /\ keys_pressed = <<>>
    /\ keys_held = <<>>
    /\ keys_released = <<>>
    /\ frames = NoFrames

\* A Screen of any size up to MaxDim x MaxDim, every cell distinct.
InitScreen ==
    /\ scr \in {Pattern(w, h) : w \in Dims, h \in Dims}
    /\ pre = scr
    /\ call = NoCall
    /\ ret = NoRet
    /\ EngineIdle
    /\ KeysIdle
    /\ EnvIdle

\* One call is applied to the screen drawn by InitScreen.
Fresh == call = NoCall

----------------------------------------------------------------------------
(* The drawing primitives that go through set_pxl. *)

\* A coarser set of coordinates (outside, inside, outside) for the shapes
\* that take many.
FewCoords == {0 - MaxOut, 1, MaxDim - 1 + MaxOut}

\* A 2 x 2 source for print_screen, and an empty one.
Sources == {from_vec(<<pxl(HASH), pxl(STAR), pxl(PLUS), pxl(MINUS)>>, 2, 2),
            new(0, 2)}

\* The call `c` applied to screen `s` with every coordinate moved by `off`.
Apply(c, s, off) ==
    CASE c.op = "set_pxl" ->
           set_pxl(s, c.a[1] + off, c.a[2] + off, c.character)
      [] c.op = "h_line" ->
           h_line(s, c.a[1] + off, c.a[2] + off, c.a[3] + off, c.character)
      [] c.op = "v_line" ->
           v_line(s, c.a[1] + off, c.a[2] + off, c.a[3] + off, c.character)
      [] c.op = "line" ->
           line(s, c.a[1] + off, c.a[2] + off, c.a[3] + off, c.a[4] + off,
                c.character)
      [] c.op = "rect" ->
           rect(s, c.a[1] + off, c.a[2] + off, c.a[3] + off, c.a[4] + off,
                c.character)
      [] c.op = "rect_border" ->
           rect_border(s, c.a[1] + off, c.a[2] + off, c.a[3] + off,
                       c.a[4] + off, c.rect_style)
      [] c.op = "fill_rect" ->
           fill_rect(s, c.a[1] + off, c.a[2] + off, c.a[3] + off, c.a[4] + off,
                     c.character)
      [] c.op = "circle" ->
           circle(s, c.a[1] + off, c.a[2] + off, c.radius, c.character)
      [] c.op = "fill_circle" ->
           fill_circle(s, c.a[1] + off, c.a[2] + off, c.radius, c.character)
      [] c.op = "triangle" ->
           triangle(s, c.a[1] + off, c.a[2] + off, c.a[3] + off, c.a[4] + off,
                    c.a[5] + off, c.a[6] + off, c.character)
      [] c.op = "print_screen" ->
           print_screen(s, c.a[1] + off, c.a[2] + off, c.source)

\* The call just recorded in call' is applied to the screen.
Applied ==
    /\ pre' = scr
    /\ scr' = Apply(call', scr, 0)
    /\ UNCHANGED <<ret, engineVars, keyVars, envVars>>

SetPxl ==
    /\ Fresh
    /\ \E x \in Coords, y \in Coords, p \in {pxl(HASH), pxl_fbg(STAR, "Red", "Blue")} :
          /\ call' = [op |-> "set_pxl", a |-> <<x, y>>, character |-> p]
          /\ Applied

HLine ==
    /\ Fresh
    /\ \E x0 \in Coords, y0 \in Coords, x1 \in Coords :
          /\ call' = [op |-> "h_line", a |-> <<x0, y0, x1>>, character |-> pxl(HASH)]
          /\ Applied

VLine ==
    /\ Fresh
    /\ \E x0 \in Coords, y0 \in Coords, y1 \in Coords :
          /\ call' = [op |-> "v_line", a |-> <<x0, y0, y1>>, character |-> pxl(HASH)]
          /\ Applied

Line ==
    /\ Fresh
    /\ \E x0 \in Coords, y0 \in Coords, x1 \in Coords, y1 \in Coords :
          /\ call' = [op |-> "line", a |-> <<x0, y0, x1, y1>>, character |-> pxl(HASH)]
          /\ Applied

Rect ==
    /\ Fresh
    /\ \E x0 \in Coords, y0 \in Coords, x1 \in FewCoords, y1 \in FewCoords :
          /\ call' = [op |-> "rect", a |-> <<x0, y0, x1, y1>>, character |-> pxl(HASH)]
          /\ Applied

RectBorder ==
    /\ Fresh
    /\ \E x0 \in Coords, y0 \in Coords, x1 \in FewCoords, y1 \in FewCoords :
          /\ call' = [op |-> "rect_border", a |-> <<x0, y0, x1, y1>>,
                      rect_style |-> new_simple]
          /\ Applied

FillRect ==
    /\ Fresh
    /\ \E x0 \in Coords, y0 \in Coords, x1 \in FewCoords, y1 \in FewCoords :
          /\ call' = [op |-> "fill_rect", a |-> <<x0, y0, x1, y1>>,
                      character |-> pxl(HASH)]
          /\ Applied

Circle ==
    /\ Fresh
    /\ \E x \in Coords, y \in Coords, r \in 0..MaxRadius :
          /\ call' = [op |-> "circle", a |-> <<x, y>>, radius |-> r,
                      character |-> pxl(HASH)]
          /\ Applied

FillCircle ==
    /\ Fresh
    /\ \E x \in Coords, y \in Coords, r \in 0..MaxRadius :
          /\ call' = [op |-> "fill_circle", a |-> <<x, y>>, radius |-> r,
                      character |-> pxl(HASH)]
          /\ Applied

Triangle ==
    /\ Fresh
    /\ \E x1 \in Coords, y1 \in FewCoords, x2 \in FewCoords, y2 \in FewCoords,
          x3 \in FewCoords, y3 \in FewCoords :
          /\ call' = [op |-> "triangle", a |-> <<x1, y1, x2, y2, x3, y3>>,
                      character |-> pxl(HASH)]
          /\ Applied

PrintScreen ==
    /\ Fresh
    /\ \E x \in Coords, y \in Coords, source \in Sources :
          /\ call' = [op |-> "print_screen", a |-> <<x, y>>, source |-> source]
          /\ Applied

NextShapes ==
    \/ SetPxl
    \/ HLine
    \/ VLine
    \/ Line
    \/ Rect
    \/ RectBorder
    \/ FillRect
    \/ Circle
    \/ FillCircle
    \/ Triangle
    \/ PrintScreen

SpecShapes == InitScreen /\ [][NextShapes]_vars

ShapeOps == {"set_pxl", "h_line", "v_line", "line", "rect", "rect_border",
             "fill_rect", "circle", "fill_circle", "triangle", "print_screen"}

\* C4. Line symmetry: a line between two points of the buffer leaves the
\* same buffer whichever endpoint is given first.
C4_LineSymmetry ==
    (call.op = "line" /\ InBounds(pre, call.a[1], call.a[2])
                      /\ InBounds(pre, call.a[3], call.a[4]))
    => scr = line(pre, call.a[3], call.a[4], call.a[1], call.a[2], call.character)

\* A sloped line (neither axis-aligned nor a diagonal) given right to left
\* was drawn between two points of the buffer.
C4_Witness ==
    /\ call.op = "line"
    /\ InBounds(pre, call.a[1], call.a[2])
    /\ InBounds(pre, call.a[3], call.a[4])
    /\ call.a[1] > call.a[3]
    /\ call.a[2] # call.a[4]
    /\ Abs(call.a[1] - call.a[3]) # Abs(call.a[2] - call.a[4])
    /\ scr # pre

\* The unclipped draw: the screen is laid at (Margin, Margin) on a screen
\* large enough to hold every shape the actions draw.
Margin == MaxOut + MaxRadius
BigDim == MaxDim + 2 * Margin

Embed(s) ==
    from_vec([k \in 1..(BigDim * BigDim) |->
                LET x == ((k - 1) % BigDim) - Margin
                    y == ((k - 1) \div BigDim) - Margin
                IN IF InBounds(s, x, y) THEN Cell(s, x, y) ELSE pxl(SPACE)],
             BigDim, BigDim)

\* C5. Clipping: a primitive drawn with any signed coordinates never
\* indexes outside the buffer, keeps the screen's size, and leaves in every
\* cell of the screen what the same call leaves there on a larger screen
\* that holds the whole shape.
C5_Clipping ==
    call.op \in ShapeOps =>
        /\ ~scr.panic
        /\ scr.width = pre.width /\ scr.height = pre.height
        /\ Len(scr.screen) = Len(pre.screen)
        /\ LET big == Apply(call, Embed(pre), Margin)
           IN /\ ~big.panic
              /\ \A x \in 0..(scr.width - 1), y \in 0..(scr.height - 1) :
                    Cell(scr, x, y) = Cell(big, x + Margin, y + Margin)

\* A line with one endpoint left of or above the screen and the other
\* inside it was drawn, and it changed the screen.
C5_Witness ==
    /\ call.op = "line"
    /\ (call.a[1] < 0 \/ call.a[2] < 0)
    /\ InBounds(pre, call.a[3], call.a[4])
    /\ call.a[1] # call.a[3] /\ call.a[2] # call.a[4]
    /\ scr # pre

\* The columns of row y in which s holds the pixel p.
ColumnsOf(s, y, p) == {x \in 0..(s.width - 1) : Cell(s, x, y) = p}

\* The cells in which s holds the pixel p.
CellsOf(s, p) ==
    {<<x, y>> \in (0..(s.width - 1)) \X (0..(s.height - 1)) : Cell(s, x, y) = p}

\* C29. For a radius r >= 1, every cell circle(x, y, r, p) sets is set by
\* fill_circle(x, y, r, p), and fill_circle sets in each row from y - r to
\* y + r, none skipped, one run of cells centred on column x, clipped to
\* the screen, and nothing in the other rows; with r = 0 both calls leave
\* the screen as it was.
C29_CircleInFillCircle ==
    /\ (call.op \in {"circle", "fill_circle"} /\ call.radius = 0) => scr = pre
    /\ (call.op = "fill_circle" /\ call.radius >= 1) =>
          LET x == call.a[1]
              y == call.a[2]
              p == call.character
              outline == circle(pre, x, y, call.radius, p)
          IN /\ CellsOf(outline, p) \subseteq CellsOf(scr, p)
             /\ \A row \in 0..(pre.height - 1) :
                   IF row < y - call.radius \/ row > y + call.radius
                   THEN ColumnsOf(scr, row, p) = {}
                   ELSE \E half \in 0..call.radius :
                           ColumnsOf(scr, row, p) =
                              {c \in 0..(pre.width - 1) : Abs(c - x) <= half}

\* A disc of the largest radius was filled around a cell of the largest
\* screen: its outline alone sets fewer cells.
C29_Witness ==
    /\ call.op = "fill_circle"
    /\ call.radius = MaxRadius
    /\ pre.width = MaxDim /\ pre.height = MaxDim
    /\ InBounds(pre, call.a[1], call.a[2])
    /\ CellsOf(scr, call.character) #
          CellsOf(circle(pre, call.a[1], call.a[2], call.radius, call.character),
                  call.character)

----------------------------------------------------------------------------
(* Text. *)

TextChars == {ChrX, TAB, LF, CR}

RECURSIVE SeqsUpTo(_, _)
SeqsUpTo(S, n) ==
    IF n = 0 THEN {<<>>}
    ELSE LET shorter == SeqsUpTo(S, n - 1)
         IN shorter \cup {Append(q, e) : q \in shorter, e \in S}

Texts      == SeqsUpTo(TextChars, MaxText)
TextCoords == (0 - 2)..MaxTextDim

InitText ==
    /\ scr \in {Pattern(w, h) : w \in 0..MaxTextDim, h \in 0..MaxTextDim}
    /\ pre = scr
    /\ call = NoCall
    /\ ret = NoRet
    /\ EngineIdle
    /\ KeysIdle
    /\ EnvIdle

CallPrint ==
    /\ Fresh
    /\ \E x \in TextCoords, y \in TextCoords, string \in {q \in Texts : Len(q) <= 2} :
          /\ call' = [op |-> "print", a |-> <<x, y>>, string |-> string,
                      fg |-> "Reset", bg |-> "Reset"]
          /\ pre' = scr
          /\ scr' = print(scr, x, y, string)
          /\ UNCHANGED <<ret, engineVars, keyVars, envVars>>

CallPrintFbg ==
    /\ Fresh
    /\ \E x \in TextCoords, y \in TextCoords, string \in Texts :
          /\ call' = [op |-> "print_fbg", a |-> <<x, y>>, string |-> string,
                      fg |-> "Red", bg |-> "Blue"]
          /\ pre' = scr
          /\ scr' = print_fbg(scr, x, y, string, "Red", "Blue")
          /\ UNCHANGED <<ret, engineVars, keyVars, envVars>>

NextText ==
    \/ CallPrint
    \/ CallPrintFbg

SpecText == InitText /\ [][NextText]_vars

TextOps == {"print", "print_fbg"}

\* C6. print and print_fbg never panic and never index outside the cell
\* buffer, whatever the start coordinate, the text and the screen size
\* (width and height of 0 included).
C6_PrintNeverPanics == call.op \in TextOps => ~scr.panic

\* The reference of C7: a cursor (col, row) that starts at (x, y).
RECURSIVE RefPrint(_, _, _, _, _, _, _, _)
RefPrint(s, string, k, x, col, row, fg, bg) ==
    IF k > Len(string) THEN s
    ELSE IF string[k] = LF THEN RefPrint(s, string, k + 1, x, x, row + 1, fg, bg)
    ELSE IF string[k] = CR THEN RefPrint(s, string, k + 1, x, x, row, fg, bg)
    ELSE LET c  == IF string[k] = TAB THEN SPACE ELSE string[k]
             s1 == IF col < s.width /\ row < s.height
                   THEN [s EXCEPT !.screen[row * s.width + col + 1] =
                                      [chr |-> c, fg |-> fg, bg |-> bg]]
                   ELSE s
         IN RefPrint(s1, string, k + 1, x, col + 1, row, fg, bg)

RECURSIVE SegmentStart(_, _)
SegmentStart(string, k) ==
    IF k <= 1 THEN 0
    ELSE IF string[k - 1] \in {LF, CR} THEN k - 1
    ELSE SegmentStart(string, k - 1)

\* The number of '\n' before position k.
RECURSIVE LinesBefore(_, _)
LinesBefore(string, k) ==
    IF k <= 1 THEN 0
    ELSE LinesBefore(string, k - 1) + (IF string[k - 1] = LF THEN 1 ELSE 0)

\* The reference of C18: the characters taken in order, each one placed by
\* its index in its own segment, the segment beginning at column x.
RECURSIVE RefSegments(_, _, _, _, _, _, _)
RefSegments(s, string, k, x, y, fg, bg) ==
    IF k > Len(string) THEN s
    ELSE IF string[k] \in {LF, CR} THEN RefSegments(s, string, k + 1, x, y, fg, bg)
    ELSE LET c   == IF string[k] = TAB THEN SPACE ELSE string[k]
             col == x + (k - SegmentStart(string, k) - 1)
             row == y + LinesBefore(string, k)
             s1  == IF 0 <= col /\ col < s.width /\ row < s.height
                    THEN [s EXCEPT !.screen[row * s.width + col + 1] =
                                       [chr |-> c, fg |-> fg, bg |-> bg]]
                    ELSE s
         IN RefSegments(s1, string, k + 1, x, y, fg, bg)

\* C18. print_fbg with x < 0 and 0 <= y < height: every segment of the
\* text (begun at the text start, after a '\n' or after a '\r') restarts at
\* column x, so its first |x| characters are consumed undrawn and its
\* character at index |x| + i lands in column i of the segment's row.
C18_SegmentsRestartAtX ==
    (/\ call.op \in TextOps
     /\ call.a[1] < 0
     /\ 0 <= call.a[2] /\ call.a[2] < pre.height)
    => scr = RefSegments(pre, call.string, 1, call.a[1], call.a[2],
                         call.fg, call.bg)

\* The lines of a text, split at '\n'.
RECURSIVE SplitLF(_)
SplitLF(string) ==
    LET p == FindLF(string, 1)
    IN IF p = 0 THEN <<string>>
       ELSE <<SubSeq(string, 1, p - 1)>>
            \o SplitLF(SubSeq(string, p + 1, Len(string)))

\* The reference of C19: line number n + k of the text printed alone at
\* (x, k), for k = 0, 1, ...
RECURSIVE RefLines(_, _, _, _, _, _, _)
RefLines(s, lines, n, k, x, fg, bg) ==
    IF n + k + 1 > Len(lines) THEN s
    ELSE RefLines(print_fbg(s, x, k, lines[n + k + 1], fg, bg),
                  lines, n, k + 1, x, fg, bg)

\* C19. print_fbg with y < 0 and x < width: the first |y| lines of the text
\* are dropped, line number |y| + k is drawn on row k as print_fbg(x, k,
\* line) draws it, and nothing is drawn when the text has |y| or fewer
\* lines.
C19_LinesAboveDropped ==
    (/\ call.op \in TextOps
     /\ call.a[2] < 0
     /\ call.a[1] < pre.width)
    => scr = RefLines(pre, SplitLF(call.string), 0 - call.a[2], 0,
                      call.a[1], call.fg, call.bg)

----------------------------------------------------------------------------
(* Reading: get_pxl and extract. *)

GetPxl ==
    /\ Fresh
    /\ \E x \in Coords, y \in Coords, overflow_checks \in BOOLEAN :
          /\ call' = [op |-> "get_pxl", a |-> <<x, y>>]
          /\ ret' = get_pxl(scr, x, y, overflow_checks)
          /\ pre' = scr
          /\ UNCHANGED <<scr, engineVars, keyVars, envVars>>

Extract ==
    /\ Fresh
    /\ \E start_x \in Coords, start_y \in Coords, end_x \in Coords, end_y \in Coords :
          /\ call' = [op |-> "extract", a |-> <<start_x, start_y, end_x, end_y>>,
                      default |-> pxl(HASH)]
          /\ ret' = extract(scr, start_x, start_y, end_x, end_y, pxl(HASH))
          /\ pre' = scr
          /\ UNCHANGED <<scr, engineVars, keyVars, envVars>>

NextRead ==
    \/ GetPxl
    \/ Extract

SpecRead == InitScreen /\ [][NextRead]_vars

\* C8. get_pxl returns Ok with the Pixel at index y*width+x inside the
\* screen, an Err value (never a panic) everywhere else, and leaves the
\* screen as it was, for every size including width = 0 or height = 0.
C8_GetPxlResult ==
    call.op = "get_pxl" =>
        /\ scr = pre
        /\ IF InBounds(pre, call.a[1], call.a[2])
           THEN ret = [kind |-> "Ok",
                       pixel |-> pre.screen[call.a[2] * pre.width + call.a[1] + 1]]
           ELSE ret.kind = "Err"

\* C9. For start <= end on both axes, extract returns a new Screen of size
\* (x1-x0+1) x (y1-y0+1) whose cell (i, j) is the source cell (x0+i, y0+j)
\* inside the source and the default outside it; the source is unchanged,
\* and extracting the full rectangle gives the original's size and cells.
C9_Extract ==
    (call.op = "extract" /\ call.a[1] <= call.a[3] /\ call.a[2] <= call.a[4])
    => LET x0 == call.a[1]
           y0 == call.a[2]
           tw == call.a[3] - call.a[1] + 1
           th == call.a[4] - call.a[2] + 1
       IN /\ scr = pre
          /\ ~ret.panic
          /\ ret.width = tw /\ ret.height = th /\ Len(ret.screen) = tw * th
          /\ \A i \in 0..(tw - 1), j \in 0..(th - 1) :
                Cell(ret, i, j) = IF InBounds(pre, x0 + i, y0 + j)
                                  THEN Cell(pre, x0 + i, y0 + j)
                                  ELSE call.default
          /\ (call.a = <<0, 0, pre.width - 1, pre.height - 1>>)
                => (/\ ret.width = pre.width /\ ret.height = pre.height
                    /\ ret.screen = pre.screen)

\* A rectangle that overhangs the source on the left and at the bottom was
\* extracted from a screen of two rows or more.
C9_Witness ==
    /\ call.op = "extract"
    /\ call.a[1] < 0 /\ call.a[3] >= 1
    /\ call.a[2] = 1 /\ call.a[4] >= pre.height
    /\ pre.width >= 2 /\ pre.height >= 2
    /\ ret.width = call.a[3] - call.a[1] + 1

\* C10. extract with reversed coordinates is the mirror of the extraction
\* with the coordinates in order: columns reversed when start_x > end_x,
\* rows reversed when start_y > end_y, both when both.
C10_ExtractMirror ==
    (call.op = "extract" /\ (call.a[1] > call.a[3] \/ call.a[2] > call.a[4]))
    => LET x_rev  == call.a[1] > call.a[3]
           y_rev  == call.a[2] > call.a[4]
           plain  == extract(pre, Min(call.a[1], call.a[3]), Min(call.a[2], call.a[4]),
                             Max(call.a[1], call.a[3]), Max(call.a[2], call.a[4]),
                             call.default)
       IN /\ ret.width = plain.width /\ ret.height = plain.height
          /\ Len(ret.screen) = Len(plain.screen)
          /\ \A i \in 0..(ret.width - 1), j \in 0..(ret.height - 1) :
                Cell(ret, i, j) =
                    Cell(plain, IF x_rev THEN ret.width - 1 - i ELSE i,
                                IF y_rev THEN ret.height - 1 - j ELSE j)

\* A rectangle inside a screen of 2 x 2 or more was extracted with both
\* coordinate pairs reversed, so its first cell is the source's far corner.
C10_Witness ==
    /\ call.op = "extract"
    /\ call.a = <<1, 1, 0, 0>>
    /\ pre.width >= 2 /\ pre.height >= 2
    /\ Cell(ret, 0, 0) = Cell(pre, 1, 1)
    /\ Cell(ret, 1, 1) = Cell(pre, 0, 0)

----------------------------------------------------------------------------
(* utils.rs: the three vector operations. *)

Contains(vector, element) == \E i \in 1..Len(vector) : vector[i] = element

RECURSIVE PushMissing(_, _, _)
PushMissing(unioned, vector2, k) ==
    IF k > Len(vector2) THEN unioned
    ELSE PushMissing(IF Contains(unioned, vector2[k]) THEN unioned
                     ELSE Append(unioned, vector2[k]),
                     vector2, k + 1)

\* Every element of vector1 is pushed, then the elements of vector2 not
\* yet in the result.
union(vector1, vector2) == PushMissing(vector1, vector2, 1)

\* intersect that keeps every element of vector1.
intersect_first(vector1, vector2) == vector1

intersect(vector1, vector2) ==
    SelectSeq(vector1, LAMBDA element : Contains(vector2, element))

\* outersect_left with its arguments exchanged.
outersect_left_swapped(vector1, vector2) ==
    SelectSeq(vector2, LAMBDA element : ~Contains(vector1, element))

outersect_left(vector1, vector2) ==
    SelectSeq(vector1, LAMBDA element : ~Contains(vector2, element))

----------------------------------------------------------------------------
(* The engine's key state. *)

\* KeyEvent::new_with_kind: two key events are equal when code, modifiers
\* and kind are.
new_with_kind(code, modifiers, kind) ==
    [code |-> code, modifiers |-> modifiers, kind |-> kind]

KeyCodes == {"A", "B"}

\* The key events a terminal delivers in the model.
KeyEvents ==
    {new_with_kind(k, "NONE", "Press") : k \in KeyCodes}
    \cup {new_with_kind("A", "NONE", "Release"), new_with_kind("A", "SHIFT", "Press")}

Captures == SeqsUpTo(KeyEvents, MaxCaptured)

Range(vector) == {vector[i] : i \in 1..Len(vector)}

is_key_pressed_with_modifier(key, modifier, kind) ==
    Contains(keys_pressed, new_with_kind(key, modifier, kind))

is_key_pressed(key) == is_key_pressed_with_modifier(key, "NONE", "Press")

is_key_held_with_modifier(key, modifier, kind) ==
    Contains(keys_held, new_with_kind(key, modifier, kind))

is_key_held(key) == is_key_held_with_modifier(key, "NONE", "Press")

is_key_released_with_modifier(key, modifier, kind) ==
    Contains(keys_released, new_with_kind(key, modifier, kind))

is_key_released(key) == is_key_released_with_modifier(key, "NONE", "Release")

\* ConsoleEngine::init leaves the three vectors empty.
InitKeys ==
    /\ KeysIdle
    /\ EnvIdle
    /\ ScreenIdle
    /\ EngineIdle

\* wait_frame: the polling loop pushed captured_keyboard, then the three
\* vectors are replaced. frames.n counts the frames up to 3.
WaitFrame ==
    \E captured_keyboard \in Captures :
        LET held == intersect(union(keys_pressed, keys_held), captured_keyboard)
            pressed == outersect_left(captured_keyboard, held)
        IN /\ keys_released' = outersect_left(keys_held, held)
           /\ keys_pressed' = pressed
           /\ keys_held' = union(held, pressed)
           /\ frames' = [n |-> Min(frames.n + 1, 3),
                         now |-> Range(captured_keyboard),
                         prev |-> frames.now,
                         pressed |-> keys_pressed,
                         held |-> keys_held,
                         captured |-> captured_keyboard]
           /\ UNCHANGED <<screenVars, engineVars, envVars>>

NextKeys == WaitFrame

SpecKeys == InitKeys /\ [][NextKeys]_vars

\* C1. A key K (no modifiers, kind Press) captured in frames 1..N and not
\* in frame N+1: pressed is true after frame 1 only (and again after a
\* frame that captures K anew), held after each of frames 1..N, released
\* after frame N+1 and not after frames 1..N.
C1_KeyLifecycle ==
    \A k \in KeyCodes :
        LET K     == new_with_kind(k, "NONE", "Press")
            now   == K \in frames.now
            prev  == K \in frames.prev
        IN frames.n >= 1 =>
             /\ (now /\ ~prev) => (is_key_pressed(k) /\ is_key_held(k)
                                   /\ ~is_key_released(k))
             /\ (now /\ prev) => (~is_key_pressed(k) /\ is_key_held(k)
                                  /\ ~is_key_released(k))
             /\ (~now /\ prev) => (~is_key_pressed(k) /\ ~is_key_held(k)
                                   /\ is_key_released(k))

\* The keys that were down before the frame and are captured in it: the
\* local `held` of wait_frame.
StillDown ==
    (Range(frames.pressed) \cup Range(frames.held)) \cap Range(frames.captured)

\* C23, as stated. After every wait_frame the held set is (pressed-before
\* union held-before) intersected with the captured keys, and the pressed
\* set is the captured keys minus the held set.
C23_HeldIsStillDown ==
    frames.n >= 1 =>
       /\ Range(keys_held) = StillDown
       /\ Range(keys_pressed) = Range(frames.captured) \ Range(keys_held)

\* C23, amended. After every wait_frame the pressed set is the captured
\* keys minus (pressed-before union held-before) intersected with the
\* captured keys, and the held set is that intersection together with the
\* pressed set.
C23_HeldIsStillDownOrPressed ==
    frames.n >= 1 =>
       /\ Range(keys_pressed) = Range(frames.captured) \ StillDown
       /\ Range(keys_held) = StillDown \cup Range(keys_pressed)

\* A frame captured a key that was down before and one that was not.
C23_Witness ==
    /\ frames.n >= 2
    /\ StillDown # {}
    /\ Range(keys_pressed) # {}
    /\ Len(frames.captured) = 2

\* C27. After every wait_frame keys_held holds the key events captured in
\* the frame, keys_pressed those captured now and not in the frame before
\* (a subset of keys_held), keys_released those captured in the frame
\* before and not now.
C27_KeySetsPerFrame ==
    frames.n >= 1 =>
       /\ Range(keys_held) = frames.now
       /\ Range(keys_pressed) = frames.now \ frames.prev
       /\ Range(keys_pressed) \subseteq Range(keys_held)
       /\ Range(keys_released) = frames.prev \ frames.now

\* A frame in which one key was released and another pressed.
C27_Witness ==
    /\ frames.n >= 2
    /\ Range(keys_released) # {}
    /\ Range(keys_pressed) # {}
    /\ Range(keys_held) = Range(keys_pressed)

----------------------------------------------------------------------------
(* Calls of the three vector operations of utils.rs. *)

\* Two vectors of key events are given.
InitUtils ==
    /\ call \in {[op |-> "vectors", vector1 |-> v1, vector2 |-> v2] :
                    v1 \in Captures, v2 \in Captures}
    /\ ret = NoRet
    /\ scr = new(0, 0)
    /\ pre = new(0, 0)
    /\ EngineIdle
    /\ KeysIdle
    /\ EnvIdle

Union ==
    /\ call.op = "vectors"
    /\ call' = [call EXCEPT !.op = "union"]
    /\ ret' = [kind |-> "Vec", value |-> union(call.vector1, call.vector2)]
    /\ UNCHANGED <<scr, pre, engineVars, keyVars, envVars>>

Intersect ==
    /\ call.op = "vectors"
    /\ call' = [call EXCEPT !.op = "intersect"]
    /\ ret' = [kind |-> "Vec", value |-> intersect(call.vector1, call.vector2)]
    /\ UNCHANGED <<scr, pre, engineVars, keyVars, envVars>>

OutersectLeft ==
    /\ call.op = "vectors"
    /\ call' = [call EXCEPT !.op = "outersect_left"]
    /\ ret' = [kind |-> "Vec", value |-> outersect_left(call.vector1, call.vector2)]
    /\ UNCHANGED <<scr, pre, engineVars, keyVars, envVars>>

NextUtils ==
    \/ Union
    \/ Intersect
    \/ OutersectLeft

SpecUtils == InitUtils /\ [][NextUtils]_vars

\* No value stands twice in the vector.
Unique(vector) ==
    \A i \in 1..Len(vector), j \in 1..Len(vector) :
        vector[i] = vector[j] => i = j

\* C26. union(v1, v2) holds every value of v1 and of v2 and no value
\* twice, for all v1 and v2, those with repeated values included.
C26_UnionUnique ==
    call.op = "union" =>
       /\ Range(ret.value) = Range(call.vector1) \cup Range(call.vector2)
       /\ Unique(ret.value)

----------------------------------------------------------------------------
(* The engine: screen, last-frame snapshot and draw. *)

\* The commands draw queues on stdout. A Print command of a cell's
\* character carries the cell it was printed for.
MoveTo(x, y) == [op |-> "MoveTo", x |-> x, y |-> y]
SetForegroundColor(color) == [op |-> "SetForegroundColor", color |-> color]
SetBackgroundColor(color) == [op |-> "SetBackgroundColor", color |-> color]
PrintChr(chr, x, y) == [op |-> "Print", chr |-> chr, cell |-> <<x, y>>]
PrintCRLF == [op |-> "PrintCRLF"]

\* UnicodeWidthChar::width for the characters of the model: None for a
\* control character, 0 for NUL, 2 for a double-width character.
char_width(chr) ==
    IF chr = NUL THEN [some |-> TRUE, value |-> 0]
    ELSE IF chr < SPACE THEN [some |-> FALSE, value |-> 0]
    ELSE IF chr = WIDE THEN [some |-> TRUE, value |-> 2]
    ELSE [some |-> TRUE, value |-> 1]

get_colors(pixel) == <<pixel.fg, pixel.bg>>

\* The branch of draw that writes the cell at (x, y).
draw_write(d, pixel, x, y) ==
    LET d1 == IF d.moving
              THEN [d EXCEPT !.out = Append(@, MoveTo(x, y)), !.moving = FALSE]
              ELSE d
    IN IF d1.current_colors # get_colors(pixel) \/ d1.first
       THEN [d1 EXCEPT !.current_colors = get_colors(pixel),
                       !.out = @ \o <<SetForegroundColor(pixel.fg),
                                      SetBackgroundColor(pixel.bg),
                                      PrintChr(pixel.chr, x, y)>>,
                       !.first = FALSE]
       ELSE [d1 EXCEPT !.out = Append(@, PrintChr(pixel.chr, x, y))]

\* The body of draw's inner loop; an unwrap of Err is a panic.
draw_cell(self, d, x, y) ==
    LET got == get_pxl(self.screen, x, y, TRUE)
    IN IF got.kind # "Ok" THEN [d EXCEPT !.panic = TRUE]
       ELSE IF d.skip_next THEN [d EXCEPT !.skip_next = FALSE]
       ELSE LET pixel == got.pixel
                w     == char_width(pixel.chr)
                d1    == IF w.some /\ w.value > 1
                         THEN [d EXCEPT !.skip_next = TRUE]
                         ELSE d
            IN IF is_empty(self.screen_last_frame)
               THEN draw_write(d1, pixel, x, y)
               ELSE LET last == get_pxl(self.screen_last_frame, x, y, TRUE)
                    IN IF last.kind # "Ok" THEN [d1 EXCEPT !.panic = TRUE]
                       ELSE IF pixel # last.pixel
                       THEN draw_write(d1, pixel, x, y)
                       ELSE [d1 EXCEPT !.moving = TRUE]

RECURSIVE draw_loop(_, _, _, _)
draw_loop(self, d, x, y) ==
    IF d.panic \/ y >= self.height THEN d
    ELSE IF x >= self.width
    THEN draw_loop(self,
                   IF y < self.height - 1
                   THEN [d EXCEPT !.out = Append(@, PrintCRLF)]
                   ELSE d,
                   0, y + 1)
    ELSE draw_loop(self, draw_cell(self, d, x, y), x + 1, y)

\* draw: self is the engine; the result is the engine after the call, its
\* stdout the commands this call flushed.
draw(self) ==
    LET checked == [self EXCEPT !.screen_last_frame = check_empty(@)]
        d == draw_loop(checked,
                       [out |-> <<MoveTo(0, 0)>>, first |-> TRUE,
                        current_colors |-> <<"Reset", "Reset">>,
                        moving |-> FALSE, skip_next |-> FALSE, panic |-> FALSE],
                       0, 0)
    IN IF d.panic
       THEN [checked EXCEPT !.panic = TRUE]
       ELSE [checked EXCEPT !.stdout = d.out, !.screen_last_frame = self.screen]

request_full_draw(self) ==
    [self EXCEPT !.screen_last_frame = new_empty(self.width, self.height)]

\* resize that keeps the last-frame snapshot it had.
engine_resize_keep_last(self, new_width, new_height) ==
    [self EXCEPT !.screen = resize(self.screen, new_width, new_height),
                 !.width = new_width,
                 !.height = new_height]

engine_resize(self, new_width, new_height) ==
    [self EXCEPT !.screen = resize(self.screen, new_width, new_height),
                 !.width = new_width,
                 !.height = new_height,
                 !.screen_last_frame = new_empty(new_width, new_height)]

set_screen(self, source) ==
    request_full_draw([self EXCEPT !.width = source.width,
                                   !.height = source.height,
                                   !.screen = source])

\* check_resize; size is what crossterm::terminal::size() returns.
engine_check_resize(self, size) ==
    IF size # <<self.width, self.height>>
    THEN engine_resize(self, size[1], size[2])
    ELSE self

\* ConsoleEngine::init(width, height, _).
init(w, h) ==
    [width |-> w, height |-> h, screen |-> new(w, h),
     screen_last_frame |-> new_empty(w, h), stdout |-> <<>>, panic |-> FALSE]

\* The engine as a record, and the variables set from such a record.
Engine ==
    [width |-> width, height |-> height, screen |-> screen,
     screen_last_frame |-> screen_last_frame, stdout |-> stdout,
     panic |-> draws.panic]

EngineBecomes(self) ==
    /\ width' = self.width
    /\ height' = self.height
    /\ screen' = self.screen
    /\ screen_last_frame' = self.screen_last_frame
    /\ stdout' = self.stdout

EngineDims == 0..MaxEngineDim

\* The pixels the engine's callers write.
EnginePixels == {pxl(NUL), pxl(WIDE), pxl_fbg(ChrO, "Red", "Reset")}

\* The sizes resize is called with: none, one and the largest.
ResizeDims == {0, 1, MaxEngineDim}

\* The screens handed to set_screen.
EngineScreens ==
    {new_empty(MaxEngineDim, 1), new_fill(1, MaxEngineDim, pxl(WIDE))}

InitEngine ==
    /\ \E w \in EngineDims, h \in EngineDims :
          /\ width = w
          /\ height = h
          /\ screen = init(w, h).screen
          /\ screen_last_frame = init(w, h).screen_last_frame
    /\ stdout = <<>>
    /\ draws = NoDraws
    /\ ScreenIdle
    /\ KeysIdle
    /\ EnvIdle

CanEdit == draws.edits < MaxEdits /\ ~draws.panic

Edited ==
    /\ draws' = [draws EXCEPT !.edits = @ + 1, !.fresh = FALSE,
                              !.consecutive = FALSE]
    /\ UNCHANGED <<screenVars, keyVars, envVars>>

EngineSetPxl ==
    /\ CanEdit
    /\ \E x \in 0..(width - 1), y \in 0..(height - 1), character \in EnginePixels :
          EngineBecomes([Engine EXCEPT !.screen = set_pxl(@, x, y, character)])
    /\ Edited

EngineFill ==
    /\ CanEdit
    /\ \E pixel \in {pxl(NUL), pxl(ChrO)} :
          EngineBecomes([Engine EXCEPT !.screen = fill(@, pixel)])
    /\ Edited

EngineResize ==
    /\ CanEdit
    /\ \E new_width \in ResizeDims, new_height \in ResizeDims :
          EngineBecomes(engine_resize(Engine, new_width, new_height))
    /\ Edited

SetScreen ==
    /\ CanEdit
    /\ \E source \in EngineScreens : EngineBecomes(set_screen(Engine, source))
    /\ Edited

\* The terminal has any size when check_resize asks for it.
CheckResize ==
    /\ CanEdit
    /\ \E size \in ResizeDims \X ResizeDims :
          EngineBecomes(engine_check_resize(Engine, size))
    /\ Edited

RequestFullDraw ==
    /\ CanEdit
    /\ EngineBecomes(request_full_draw(Engine))
    /\ Edited

Draw ==
    /\ draws.n < MaxDraws
    /\ ~draws.panic
    /\ EngineBecomes(draw(Engine))
    /\ draws' = [draws EXCEPT !.n = @ + 1,
                              !.before = check_empty(screen_last_frame),
                              !.fresh = TRUE,
                              !.consecutive = draws.fresh,
                              !.panic = draw(Engine).panic]
    /\ UNCHANGED <<screenVars, keyVars, envVars>>

NextEngine ==
    \/ EngineSetPxl
    \/ EngineFill
    \/ EngineResize
    \/ CheckResize
    \/ SetScreen
    \/ RequestFullDraw
    \/ Draw

SpecEngine == InitEngine /\ [][NextEngine]_vars

\* The latest draw printed the character of the cell at (x, y).
Written(x, y) ==
    \E i \in 1..Len(stdout) : stdout[i].op = "Print" /\ stdout[i].cell = <<x, y>>

\* The cell at (x, y) is immediately to the right of a double-width character.
RightOfWide(x, y) == x >= 1 /\ Cell(screen, x - 1, y).chr = WIDE

\* C2. The second of two consecutive draw calls, with no call between
\* them, prints no cell's character.
C2_SecondDrawWritesNothing ==
    (draws.fresh /\ draws.consecutive) =>
        \A i \in 1..Len(stdout) : stdout[i].op # "Print"

\* C3. A draw prints the cell at (x, y) iff the snapshot it started from
\* holds only NUL cells or the cell's Pixel differs from the snapshot's,
\* for every cell that is not immediately to the right of a double-width
\* character.
C3_WrittenIffChanged ==
    (draws.fresh /\ ~draws.panic) =>
        \A x \in 0..(width - 1), y \in 0..(height - 1) :
            ~RightOfWide(x, y) =>
                (Written(x, y) <=> (AllNul(draws.before)
                                    \/ Cell(screen, x, y) # Cell(draws.before, x, y)))

\* C24. In every state of the engine, after any sequence of resize,
\* set_screen, check_resize, request_full_draw, draw and drawing calls,
\* the screen and the last-frame snapshot have the engine's width and
\* height (and buffers of that size), and no get_pxl(x, y).unwrap() of
\* draw has failed.
C24_ScreensInLockstep ==
    /\ screen.width = width /\ screen.height = height
    /\ screen_last_frame.width = width /\ screen_last_frame.height = height
    /\ Len(screen.screen) = width * height
    /\ Len(screen_last_frame.screen) = width * height
    /\ ~draws.panic

\* A draw was made after the engine's size was changed twice, to a size
\* that is not square.
C24_Witness ==
    /\ draws.fresh /\ draws.edits = MaxEdits
    /\ width # height /\ width > 0 /\ height > 0
    /\ Len(stdout) > 1
    /\ screen_last_frame = screen

\* The terminal cursor before command i of stdout: MoveTo sets it, a
\* printed character advances it by its display width (2 for a
\* double-width character, else 1), "\r\n" goes to column 0 of the next row.
RECURSIVE CursorBefore(_)
CursorBefore(i) ==
    IF i <= 1 THEN <<0, 0>>
    ELSE LET c   == stdout[i - 1]
             cur == CursorBefore(i - 1)
         IN IF c.op = "MoveTo" THEN <<c.x, c.y>>
            ELSE IF c.op = "Print"
            THEN <<cur[1] + (IF c.chr = WIDE THEN 2 ELSE 1), cur[2]>>
            ELSE IF c.op = "PrintCRLF" THEN <<0, cur[2] + 1>>
            ELSE cur

\* The latest draw printed the cell at (x, y) right after a MoveTo(x, y):
\* only the two color commands may stand between them.
MovedTo(x, y) ==
    \E i \in 1..Len(stdout) :
       /\ stdout[i].op = "Print" /\ stdout[i].cell = <<x, y>>
       /\ \/ (i > 1 /\ stdout[i - 1] = MoveTo(x, y))
          \/ (i > 3 /\ stdout[i - 3] = MoveTo(x, y)
                    /\ stdout[i - 2].op = "SetForegroundColor")

\* The cell before (x, y) in the order draw goes through the cells.
Before(x, y) == IF x > 0 THEN <<x - 1, y>> ELSE <<width - 1, y - 1>>

\* C25. With the terminal cursor followed through the commands of a draw,
\* every cell's character is printed while the cursor is at that cell; a
\* written cell that follows a written single-width cell gets no MoveTo,
\* and a written cell that follows a cell that was not written (other than
\* the cell covered by a written double-width character) gets one.
C25_CursorAtCell ==
    (draws.fresh /\ ~draws.panic) =>
       /\ \A i \in 1..Len(stdout) :
             stdout[i].op = "Print" => CursorBefore(i) = stdout[i].cell
       /\ \A x \in 0..(width - 1), y \in 0..(height - 1) :
             (Written(x, y) /\ <<x, y>> # <<0, 0>>) =>
                LET b == Before(x, y)
                IN /\ (Written(b[1], b[2]) /\ Cell(screen, b[1], b[2]).chr # WIDE)
                         => ~MovedTo(x, y)
                   /\ (/\ ~Written(b[1], b[2])
                       /\ ~(/\ b[1] >= 1
                            /\ Written(b[1] - 1, b[2])
                            /\ Cell(screen, b[1] - 1, b[2]).chr = WIDE))
                         => MovedTo(x, y)

----------------------------------------------------------------------------
(* Screen: scroll. *)

\* self.screen[to] = self.screen[from]: an index outside the Vec (or a
\* usize subtraction below zero) panics.
CopyCell(s, from, to) ==
    IF s.panic THEN s
    ELSE IF from >= 0 /\ from < Len(s.screen) /\ to >= 0 /\ to < Len(s.screen)
         THEN [s EXCEPT !.screen[to + 1] = s.screen[from + 1]]
         ELSE [s EXCEPT !.panic = TRUE]

\* The index of the cell at position t of line u: the line is row u of
\* the horizontal scroll, column u of the vertical one.
scroll_index(s, horizontal, t, u) ==
    IF horizontal THEN coord_to_index(s, t, u) ELSE coord_to_index(s, u, t)

\* "move the pixels": t runs from its first value to `last`, upwards
\* (dir = 1, the cell goes `step` indexes down) or downwards (dir = -1,
\* the reversed range, the cell goes `step` indexes up).
RECURSIVE scroll_move(_, _, _, _, _, _, _)
scroll_move(s, horizontal, u, t, last, dir, step) ==
    IF (dir > 0 /\ t > last) \/ (dir < 0 /\ t < last) THEN s
    ELSE LET index == scroll_index(s, horizontal, t, u)
         IN scroll_move(CopyCell(s, index, index - dir * step),
                        horizontal, u, t + dir, last, dir, step)

\* scroll_gap that leaves the vacated cells as they are.
scroll_gap_none(s, horizontal, u, t, end, background) == s

\* "fill the gap with background": t in t..end-1.
RECURSIVE scroll_gap(_, _, _, _, _, _)
scroll_gap(s, horizontal, u, t, end, background) ==
    IF t >= end THEN s
    ELSE scroll_gap(IndexWrite(s, scroll_index(s, horizontal, t, u), background),
                    horizontal, u, t + 1, end, background)

\* The outer loop: every row (horizontal) or every column (vertical).
RECURSIVE scroll_lines(_, _, _, _, _, _, _, _)
scroll_lines(s, horizontal, u, lines, amount, size, step, background) ==
    IF u >= lines THEN s
    ELSE LET moved ==
                 IF amount > 0
                 THEN scroll_move(s, horizontal, u, amount, size - 1, 1, step)
                 ELSE scroll_move(s, horizontal, u, size - Abs(amount) - 1, 0,
                                  0 - 1, step)
             filled ==
                 IF amount > 0
                 THEN scroll_gap(moved, horizontal, u, size - amount, size, background)
                 ELSE scroll_gap(moved, horizontal, u, 0, Abs(amount), background)
         IN scroll_lines(filled, horizontal, u + 1, lines, amount, size, step,
                         background)

\* One of the two halves of scroll: `if h_scroll != 0 {..}` (horizontal)
\* and `if v_scroll != 0 {..}`.
scroll_axis(s, horizontal, amount, background) ==
    LET size  == IF horizontal THEN s.width ELSE s.height
        lines == IF horizontal THEN s.height ELSE s.width
        step  == IF horizontal THEN Abs(amount) ELSE s.width * Abs(amount)
    IN IF amount = 0 THEN s
       ELSE IF amount >= size \/ amount <= 0 - size THEN fill(s, background)
       ELSE scroll_lines(s, horizontal, 0, lines, amount, size, step, background)

\* scroll that ignores v_scroll.
scroll_h_only(s, h_scroll, v_scroll, background) ==
    scroll_axis(s, TRUE, h_scroll, background)

scroll(s, h_scroll, v_scroll, background) ==
    scroll_axis(scroll_axis(s, TRUE, h_scroll, background), FALSE, v_scroll,
                background)

----------------------------------------------------------------------------
(* Whole-buffer calls: resize and scroll. *)

ScrollAmounts == (0 - MaxDim)..MaxDim

Resize ==
    /\ Fresh
    /\ \E new_width \in Dims, new_height \in Dims :
          /\ call' = [op |-> "resize", a |-> <<new_width, new_height>>]
          /\ pre' = scr
          /\ scr' = resize(scr, new_width, new_height)
          /\ UNCHANGED <<ret, engineVars, keyVars, envVars>>

\* The first scroll of a screen; `first` will hold what the call before
\* a second scroll was.
Scroll ==
    /\ Fresh
    /\ \E h_scroll \in ScrollAmounts, v_scroll \in ScrollAmounts :
          /\ call' = [op |-> "scroll", a |-> <<h_scroll, v_scroll>>,
                      background |-> pxl(HASH), first |-> NoCall]
          /\ pre' = scr
          /\ scr' = scroll(scr, h_scroll, v_scroll, pxl(HASH))
          /\ UNCHANGED <<ret, engineVars, keyVars, envVars>>

\* A second scroll of the same screen; call.first keeps the first call
\* and the screen it started from.
ScrollAgain ==
    /\ call.op = "scroll"
    /\ call.first = NoCall
    /\ \E h_scroll \in ScrollAmounts, v_scroll \in ScrollAmounts :
          /\ call' = [op |-> "scroll", a |-> <<h_scroll, v_scroll>>,
                      background |-> pxl(HASH),
                      first |-> [op |-> "scroll", a |-> call.a,
                                 background |-> call.background, pre |-> pre]]
          /\ pre' = scr
          /\ scr' = scroll(scr, h_scroll, v_scroll, pxl(HASH))
          /\ UNCHANGED <<ret, engineVars, keyVars, envVars>>

NextBuffer ==
    \/ Resize
    \/ Scroll
    \/ ScrollAgain

SpecBuffer == InitScreen /\ [][NextBuffer]_vars

\* C11. resize(new_w, new_h) leaves a screen of new_w x new_h whose cell
\* (x, y) holds what it held before when x < min(w, new_w) and
\* y < min(h, new_h), and the blank pixel otherwise.
C11_Resize ==
    call.op = "resize" =>
        /\ ~scr.panic
        /\ scr.width = call.a[1]
        /\ scr.height = call.a[2]
        /\ Len(scr.screen) = call.a[1] * call.a[2]
        /\ \A x \in 0..(scr.width - 1), y \in 0..(scr.height - 1) :
              Cell(scr, x, y) =
                  IF x < Min(pre.width, scr.width) /\ y < Min(pre.height, scr.height)
                  THEN Cell(pre, x, y)
                  ELSE pxl(SPACE)

\* A resize that changes the width of a screen of two rows or more and
\* keeps two rows or more of it, with new cells in it.
C11_Witness ==
    /\ call.op = "resize"
    /\ pre.width >= 2
    /\ pre.height >= 2
    /\ scr.width > pre.width
    /\ scr.height = 2
    /\ Cell(scr, 1, 1) = Cell(pre, 1, 1)
    /\ Cell(scr, scr.width - 1, 1) = pxl(SPACE)

\* C12. scroll(dx, dy, bg) leaves in every cell (x, y) what the cell
\* (x + dx, y + dy) held before when that cell is on the screen and bg
\* otherwise: the horizontal shift followed by the vertical one is this
\* one combined shift.
C12_Scroll ==
    call.op = "scroll" =>
        /\ ~scr.panic
        /\ scr.width = pre.width
        /\ scr.height = pre.height
        /\ Len(scr.screen) = Len(pre.screen)
        /\ \A x \in 0..(scr.width - 1), y \in 0..(scr.height - 1) :
              Cell(scr, x, y) =
                  IF InBounds(pre, x + call.a[1], y + call.a[2])
                  THEN Cell(pre, x + call.a[1], y + call.a[2])
                  ELSE call.background

\* A scroll on both axes that moves a cell diagonally and vacates others.
C12_Witness ==
    /\ call.op = "scroll"
    /\ call.a = <<1, 0 - 1>>
    /\ pre.width >= 2
    /\ pre.height >= 2
    /\ Cell(scr, 0, 1) = Cell(pre, 1, 0)
    /\ Cell(scr, 0, 0) = call.background

\* C13. For 0 < |dx| < width, scroll(dx, 0, bg) then scroll(-dx, 0, bg)
\* restores every cell except those of one band of |dx| columns at the
\* left or the right edge, which hold bg.
C13_ScrollConservation ==
    (/\ call.op = "scroll"
     /\ call.first # NoCall
     /\ call.first.a[2] = 0
     /\ call.a = <<0 - call.first.a[1], 0>>
     /\ call.first.a[1] # 0
     /\ Abs(call.first.a[1]) < scr.width) =>
        LET dx   == Abs(call.first.a[1])
            orig == call.first.pre
            Restored(lo, hi) ==
                \A x \in 0..(scr.width - 1), y \in 0..(scr.height - 1) :
                    Cell(scr, x, y) = IF x >= lo /\ x <= hi
                                      THEN call.background
                                      ELSE Cell(orig, x, y)
        IN /\ ~scr.panic
           /\ scr.width = orig.width
           /\ scr.height = orig.height
           /\ \/ Restored(0, dx - 1)
              \/ Restored(scr.width - dx, scr.width - 1)

\* A scroll by 1 column undone on a screen of 3 columns or more with rows.
C13_Witness ==
    /\ call.op = "scroll"
    /\ call.first # NoCall
    /\ call.first.a = <<1, 0>>
    /\ call.a = <<0 - 1, 0>>
    /\ scr.width >= 3
    /\ scr.height >= 1
    /\ Cell(scr, 0, 0) = call.background
    /\ Cell(scr, 1, 0) = Cell(call.first.pre, 1, 0)

----------------------------------------------------------------------------
(* Screen: fill_triangle. *)

\* The orient2d closure; a point is <<x, y>>.
orient2d(a, b, c) ==
    (b[1] - a[1]) * (c[2] - a[2]) - (b[2] - a[2]) * (c[1] - a[1])

\* The is_top_left closure.
is_top_left(v0, v1) == v0[2] > v1[2]

\* The inner loop, x in x..max_x-1. (w0 | w1 | w2) >= 0 holds iff none of
\* the three is negative.
RECURSIVE fill_triangle_row(_, _, _, _, _, _, _, _, _)
fill_triangle_row(s, x, max_x, y, w0, w1, w2, e, character) ==
    IF x >= max_x THEN s
    ELSE fill_triangle_row(IF w0 >= 0 /\ w1 >= 0 /\ w2 >= 0
                           THEN set_pxl(s, x, y, character)
                           ELSE s,
                           x + 1, max_x, y, w0 + e.a12, w1 + e.a20, w2 + e.a01,
                           e, character)

\* The outer loop, y in y..max_y-1.
RECURSIVE fill_triangle_rows(_, _, _, _, _, _, _, _, _, _)
fill_triangle_rows(s, y, max_y, min_x, max_x, w0_row, w1_row, w2_row, e, character) ==
    IF y >= max_y THEN s
    ELSE fill_triangle_rows(fill_triangle_row(s, min_x, max_x, y, w0_row, w1_row,
                                              w2_row, e, character),
                            y + 1, max_y, min_x, max_x,
                            w0_row + e.b12, w1_row + e.b20, w2_row + e.b01,
                            e, character)

\* The rasterisation of fill_triangle with the vertices taken as they are
\* given, whatever their winding.
fill_triangle_no_winding(s, x1, y1, x2, y2, x3, y3, character) ==
    LET v0    == <<x1, y1>>
        v1    == <<x2, y2>>
        v2    == <<x3, y3>>
        min_x == Max(Min(Min(v0[1], v1[1]), v2[1]), 0)
        max_x == Min(Max(Max(v0[1], v1[1]), v2[1]), s.width - 1)
        min_y == Max(Min(Min(v0[2], v1[2]), v2[2]), 0)
        max_y == Min(Max(Max(v0[2], v1[2]), v2[2]), s.height - 1)
        e     == [a01 |-> v0[2] - v1[2], b01 |-> v1[1] - v0[1],
                  a12 |-> v1[2] - v2[2], b12 |-> v2[1] - v1[1],
                  a20 |-> v2[2] - v0[2], b20 |-> v0[1] - v2[1]]
        bias0 == IF is_top_left(v1, v2) THEN 0 ELSE 0 - 1
        bias1 == IF is_top_left(v2, v0) THEN 0 ELSE 0 - 1
        bias2 == IF is_top_left(v0, v1) THEN 0 ELSE 0 - 1
        p     == <<min_x, min_y>>
    IN fill_triangle_rows(s, min_y, max_y, min_x, max_x,
                          orient2d(v1, v2, p) + bias0,
                          orient2d(v2, v0, p) + bias1,
                          orient2d(v0, v1, p) + bias2,
                          e, character)

\* fill_triangle without the outline drawn first.
fill_triangle_no_outline(s, x1, y1, x2, y2, x3, y3, character) ==
    LET v0    == <<x1, y1>>
        cross == (y2 - y1) * (x3 - x2) - (x2 - x1) * (y3 - y2)
        v1    == IF cross > 0 THEN <<x3, y3>> ELSE <<x2, y2>>
        v2    == IF cross > 0 THEN <<x2, y2>> ELSE <<x3, y3>>
        min_x == Max(Min(Min(v0[1], v1[1]), v2[1]), 0)
        max_x == Min(Max(Max(v0[1], v1[1]), v2[1]), s.width - 1)
        min_y == Max(Min(Min(v0[2], v1[2]), v2[2]), 0)
        max_y == Min(Max(Max(v0[2], v1[2]), v2[2]), s.height - 1)
        e     == [a01 |-> v0[2] - v1[2], b01 |-> v1[1] - v0[1],
                  a12 |-> v1[2] - v2[2], b12 |-> v2[1] - v1[1],
                  a20 |-> v2[2] - v0[2], b20 |-> v0[1] - v2[1]]
        bias0 == IF is_top_left(v1, v2) THEN 0 ELSE 0 - 1
        bias1 == IF is_top_left(v2, v0) THEN 0 ELSE 0 - 1
        bias2 == IF is_top_left(v0, v1) THEN 0 ELSE 0 - 1
        p     == <<min_x, min_y>>
    IN fill_triangle_rows(s, min_y, max_y, min_x, max_x,
                          orient2d(v1, v2, p) + bias0,
                          orient2d(v2, v0, p) + bias1,
                          orient2d(v0, v1, p) + bias2,
                          e, character)

fill_triangle(s, x1, y1, x2, y2, x3, y3, character) ==
    fill_triangle_no_outline(triangle(s, x1, y1, x2, y2, x3, y3, character),
                             x1, y1, x2, y2, x3, y3, character)

----------------------------------------------------------------------------
(* Calls of fill_triangle. *)

\* Triangles with vertices anywhere (coarsely), and, on the largest
\* screen, every triangle with its three vertices on the screen.
Triangles(s) ==
    {<<x1, y1, x2, y2, x3, y3>> :
        x1 \in Coords, y1 \in FewCoords, x2 \in FewCoords, y2 \in FewCoords,
        x3 \in FewCoords, y3 \in FewCoords}
    \cup IF s.width = MaxDim /\ s.height = MaxDim
         THEN {<<x1, y1, x2, y2, x3, y3>> :
                 x1 \in 0..(MaxDim - 1), y1 \in 0..(MaxDim - 1),
                 x2 \in 0..(MaxDim - 1), y2 \in 0..(MaxDim - 1),
                 x3 \in 0..(MaxDim - 1), y3 \in 0..(MaxDim - 1)}
         ELSE {}

FillTriangle ==
    /\ Fresh
    /\ \E v \in Triangles(scr) :
          /\ call' = [op |-> "fill_triangle", a |-> v, character |-> pxl(HASH),
                      first |-> NoCall]
          /\ pre' = scr
          /\ scr' = fill_triangle(scr, v[1], v[2], v[3], v[4], v[5], v[6], pxl(HASH))
          /\ UNCHANGED <<ret, engineVars, keyVars, envVars>>

\* A second triangle on the edge (x1, y1)-(x2, y2) of a first one that is
\* on the screen, filled with another character.
FillTriangleAgain ==
    /\ call.op = "fill_triangle"
    /\ call.first = NoCall
    /\ \A k \in {1, 3, 5} : InBounds(scr, call.a[k], call.a[k + 1])
    /\ \E x4 \in 0..(scr.width - 1), y4 \in 0..(scr.height - 1) :
          /\ call' = [op |-> "fill_triangle",
                      a |-> <<call.a[1], call.a[2], call.a[3], call.a[4], x4, y4>>,
                      character |-> pxl(STAR),
                      first |-> [op |-> "fill_triangle", a |-> call.a,
                                 character |-> call.character, pre |-> pre]]
          /\ pre' = scr
          /\ scr' = fill_triangle(scr, call.a[1], call.a[2], call.a[3], call.a[4],
                                  x4, y4, pxl(STAR))
          /\ UNCHANGED <<ret, engineVars, keyVars, envVars>>

NextFill ==
    \/ FillTriangle
    \/ FillTriangleAgain

SpecFill == InitScreen /\ [][NextFill]_vars

\* The point c is inside or on the border of the triangle v.
InTriangle(v, c) ==
    LET w0 == orient2d(<<v[3], v[4]>>, <<v[5], v[6]>>, c)
        w1 == orient2d(<<v[5], v[6]>>, <<v[1], v[2]>>, c)
        w2 == orient2d(<<v[1], v[2]>>, <<v[3], v[4]>>, c)
    IN \/ (w0 >= 0 /\ w1 >= 0 /\ w2 >= 0)
       \/ (w0 <= 0 /\ w1 <= 0 /\ w2 <= 0)

\* The triangles of the last two calls are non-degenerate and lie on
\* opposite sides of the edge they share.
SharedEdge ==
    /\ call.op = "fill_triangle"
    /\ call.first # NoCall
    /\ LET a == <<call.a[1], call.a[2]>>
           b == <<call.a[3], call.a[4]>>
           o1 == orient2d(a, b, <<call.first.a[5], call.first.a[6]>>)
           o2 == orient2d(a, b, <<call.a[5], call.a[6]>>)
       IN (o1 > 0 /\ o2 < 0) \/ (o1 < 0 /\ o2 > 0)

\* C14. Two non-degenerate triangles on opposite sides of a shared edge,
\* each filled by fill_triangle: no cell is written by both calls, and
\* every cell of their union is written by one of them.
C14_SharedEdgeOnce ==
    SharedEdge =>
        \A x \in 0..(scr.width - 1), y \in 0..(scr.height - 1) :
            LET first  == Cell(pre, x, y) = call.first.character
                second == Cell(scr, x, y) = call.character
            IN /\ ~(first /\ second)
               /\ (InTriangle(call.first.a, <<x, y>>) \/ InTriangle(call.a, <<x, y>>))
                     => (first \/ second)

\* The unclipped fill: the same call on the larger screen.
FillEmbedded ==
    fill_triangle(Embed(pre), call.a[1] + Margin, call.a[2] + Margin,
                  call.a[3] + Margin, call.a[4] + Margin,
                  call.a[5] + Margin, call.a[6] + Margin, call.character)

\* C15. fill_triangle with vertices outside the screen never panics and
\* leaves in every cell of the screen what the same call leaves there on a
\* larger screen that holds the whole triangle.
C15_FillTriangleClipping ==
    (call.op = "fill_triangle" /\ call.first = NoCall) =>
        /\ ~scr.panic
        /\ scr.width = pre.width
        /\ scr.height = pre.height
        /\ \A x \in 0..(scr.width - 1), y \in 0..(scr.height - 1) :
              Cell(scr, x, y) = Cell(FillEmbedded, x + Margin, y + Margin)

\* The six orders in which three vertices can be given.
Permutations3 ==
    {<<1, 2, 3>>, <<1, 3, 2>>, <<2, 1, 3>>, <<2, 3, 1>>, <<3, 1, 2>>, <<3, 2, 1>>}

\* fill_triangle on s with the vertices of v taken in the order q.
FillPermuted(s, v, q, character) ==
    fill_triangle(s, v[2 * q[1] - 1], v[2 * q[1]], v[2 * q[2] - 1], v[2 * q[2]],
                  v[2 * q[3] - 1], v[2 * q[3]], character)

\* C28. fill_triangle leaves the same buffer whatever the order in which
\* the three vertices are given, degenerate triangles included.
C28_FillTriangleOrder ==
    (call.op = "fill_triangle" /\ call.first = NoCall) =>
        \A q \in Permutations3 :
            FillPermuted(pre, call.a, q, call.character) = scr

\* The vertices of the triangle of the last call, as points.
Vertices(v) == {<<v[1], v[2]>>, <<v[3], v[4]>>, <<v[5], v[6]>>}

\* A triangle with three distinct vertices on the largest screen was
\* filled, and a cell that is not on the outline was written.
C28_Witness ==
    /\ call.op = "fill_triangle" /\ call.first = NoCall
    /\ pre.width = MaxDim /\ pre.height = MaxDim
    /\ Cardinality(Vertices(call.a)) = 3
    /\ orient2d(<<call.a[1], call.a[2]>>, <<call.a[3], call.a[4]>>,
                <<call.a[5], call.a[6]>>) # 0
    /\ scr # triangle(pre, call.a[1], call.a[2], call.a[3], call.a[4],
                      call.a[5], call.a[6], call.character)

----------------------------------------------------------------------------
(* The engine's construction: init, init_fill_require, try_resize. *)

\* a < b of two Rust tuples: the first components decide, the second
\* ones only when the first are equal.
TupleLess(a, b) == a[1] < b[1] \/ (a[1] = b[1] /\ a[2] < b[2])

\* try_resize on a terminal of `size`; `after` is the size the terminal
\* has once it was asked to become w x h. The result holds the engine,
\* the terminal's size and Ok or Err.
try_resize(self, size, after, w, h) ==
    LET asked == size[1] < w \/ size[2] < h
        now   == IF asked THEN after ELSE size
    IN [engine   |-> IF asked THEN engine_resize(self, w, h) ELSE self,
        terminal |-> now,
        result   |-> IF TupleLess(now, <<w, h>>) THEN "Err" ELSE "Ok"]

\* ConsoleEngine::init(w, h, _) up to its return value.
engine_init(size, after, w, h) == try_resize(init(w, h), size, after, w, h)

\* ConsoleEngine::init_fill_require(w, h, _): init_fill builds the engine
\* at the terminal's size, then try_resize is called again.
init_fill_require(size, after, w, h) ==
    LET filled == engine_init(size, size, size[1], size[2])
    IN IF filled.result = "Err" THEN filled
       ELSE try_resize(filled.engine, filled.terminal, after, w, h)

TermSizes == (0..(MaxEngineDim + 1)) \X (0..(MaxEngineDim + 1))

InitTerminal ==
    /\ terminal \in TermSizes
    /\ time_limit = 0
    /\ frame_count = 0
    /\ clock = NoClock
    /\ ScreenIdle
    /\ EngineIdle
    /\ KeysIdle

\* The outcome `r` of a constructor: the engine exists only after Ok.
Constructed(r) ==
    /\ ret' = [kind |-> r.result]
    /\ terminal' = r.terminal
    /\ IF r.result = "Ok"
       THEN EngineBecomes(r.engine)
       ELSE UNCHANGED <<width, height, screen, screen_last_frame, stdout>>
    /\ UNCHANGED <<scr, pre, draws, keyVars, time_limit, frame_count, clock>>

CallInit ==
    /\ Fresh
    /\ \E w \in EngineDims, h \in EngineDims, after \in TermSizes :
          /\ call' = [op |-> "init", a |-> <<w, h>>]
          /\ Constructed(engine_init(terminal, after, w, h))

CallInitFillRequire ==
    /\ Fresh
    /\ \E w \in EngineDims, h \in EngineDims, after \in TermSizes :
          /\ call' = [op |-> "init_fill_require", a |-> <<w, h>>]
          /\ Constructed(init_fill_require(terminal, after, w, h))

NextInit ==
    \/ CallInit
    \/ CallInitFillRequire

SpecInit == InitTerminal /\ [][NextInit]_vars

InitOps == {"init", "init_fill_require"}

\* C16. init and init_fill_require return Ok exactly when the terminal,
\* once it was asked to resize, has at least `width` columns and at least
\* `height` rows, and Err otherwise.
C16_InitFailsWhenTooSmall ==
    call.op \in InitOps =>
        (ret.kind = "Ok" <=> (terminal[1] >= call.a[1] /\ terminal[2] >= call.a[2]))

----------------------------------------------------------------------------
(* wait_frame: the polling loop. Durations are counted in clock ticks. *)

\* Duration::as_millis and Duration::from_millis.
as_millis(d) == d \div TicksPerMs
from_millis(ms) == ms * TicksPerMs

\* A poll that is given the whole frame duration.
poll_timeout_full(limit, elapsed_time) == limit

\* The timeout wait_frame hands to event::poll.
poll_timeout(limit, elapsed_time) ==
    LET remaining_time == limit - elapsed_time
    IN from_millis(as_millis(remaining_time) % as_millis(limit))

\* The clock saturates at ClockCap: there it reads "ClockCap or later".
ClockCap == time_limit + MaxLate

InitTimer ==
    /\ time_limit \in {from_millis(ms) : ms \in 0..MaxLimitMs}
    /\ frame_count \in 0..MaxFrameCount
    /\ clock = NoClock
    /\ terminal = <<0, 0>>
    /\ ScreenIdle
    /\ EngineIdle
    /\ KeysIdle

\* Time passes, in wait_frame and between two calls of it.
Tick ==
    /\ clock.now < ClockCap
    /\ clock' = [clock EXCEPT !.now = @ + 1]
    /\ UNCHANGED <<screenVars, engineVars, keyVars, terminal, time_limit, frame_count>>

\* wait_frame is entered, once in a run: the buffers are empty,
\* elapsed_time is measured.
WaitFrameBegin ==
    /\ clock.pc = "idle"
    /\ ~clock.returned
    /\ clock' = [clock EXCEPT !.pc = "loop", !.elapsed_time = clock.now,
                              !.captured_keyboard = <<>>, !.polls = 0, !.events = 0,
                              !.timeout = 0, !.budget = 0, !.deadline = 0,
                              !.frame_before = frame_count, !.returned = FALSE]
    /\ UNCHANGED <<screenVars, engineVars, keyVars, terminal, time_limit, frame_count>>

\* The loop is entered once more and event::poll is called.
LoopPoll ==
    /\ clock.pc = "loop"
    /\ time_limit > clock.elapsed_time
    /\ LET timeout == poll_timeout(time_limit, clock.elapsed_time)
       IN clock' = [clock EXCEPT !.pc = "poll",
                                 !.timeout = timeout,
                                 !.budget = time_limit - clock.elapsed_time,
                                 !.deadline = Min(clock.now + timeout, ClockCap)]
    /\ UNCHANGED <<screenVars, engineVars, keyVars, terminal, time_limit, frame_count>>

\* event::poll returns before its timeout: with a key event, which is
\* pushed, with another event, or with an error; elapsed_time is measured.
PollEvent ==
    /\ clock.pc = "poll"
    /\ \E event \in {"Key", "Mouse", "Err"} :
          /\ event = "Key" => Len(clock.captured_keyboard) < MaxCaptured
          /\ clock' = [clock EXCEPT
                         !.pc = "loop",
                         !.captured_keyboard =
                             IF event = "Key"
                             THEN Append(@, new_with_kind("A", "NONE", "Press"))
                             ELSE @,
                         !.polls = Min(@ + 1, 2),
                         !.events = IF event = "Err" THEN @ ELSE Min(@ + 1, 2),
                         !.elapsed_time = clock.now]
    /\ UNCHANGED <<screenVars, engineVars, keyVars, terminal, time_limit, frame_count>>

\* event::poll returns false once its timeout has passed.
PollTimeout ==
    /\ clock.pc = "poll"
    /\ clock.now >= clock.deadline
    /\ clock' = [clock EXCEPT !.pc = "loop", !.polls = Min(@ + 1, 2),
                              !.elapsed_time = clock.now]
    /\ UNCHANGED <<screenVars, engineVars, keyVars, terminal, time_limit, frame_count>>

\* The loop is left: instant is reset, the frame is counted (wrapping)
\* and the three key vectors are replaced.
WaitFrameEnd ==
    /\ clock.pc = "loop"
    /\ ~(time_limit > clock.elapsed_time)
    /\ clock' = [clock EXCEPT !.pc = "idle", !.now = 0, !.returned = TRUE]
    /\ frame_count' = (frame_count + 1) % (MaxFrameCount + 1)
    /\ LET captured_keyboard == clock.captured_keyboard
           held == intersect(union(keys_pressed, keys_held), captured_keyboard)
           pressed == outersect_left(captured_keyboard, held)
       IN /\ keys_released' = outersect_left(keys_held, held)
          /\ keys_pressed' = pressed
          /\ keys_held' = union(held, pressed)
          /\ frames' = [n |-> Min(frames.n + 1, 3),
                        now |-> Range(captured_keyboard),
                        prev |-> frames.now,
                        pressed |-> keys_pressed,
                        held |-> keys_held,
                        captured |-> captured_keyboard]
    /\ UNCHANGED <<screenVars, engineVars, terminal, time_limit>>

NextTimer ==
    \/ Tick
    \/ WaitFrameBegin
    \/ LoopPoll
    \/ PollEvent
    \/ PollTimeout
    \/ WaitFrameEnd

SpecTimer == InitTimer /\ [][NextTimer]_vars

\* The clock advances and the engine's thread runs; no event has to come.
SpecTimerLive ==
    /\ SpecTimer
    /\ WF_vars(Tick)
    /\ WF_vars(LoopPoll)
    /\ WF_vars(PollTimeout)
    /\ WF_vars(WaitFrameEnd)

\* C17. wait_frame always returns, whatever events arrive (one at every
\* poll included): every poll is given a timeout no larger than the frame
\* budget that is left at the last measure, and on return the frame
\* counter is one more than at the call (wrapping after the largest value).
C17_WaitFrameReturns ==
    /\ [](clock.pc = "poll" => clock.timeout <= clock.budget)
    /\ [](clock.returned =>
             frame_count = (clock.frame_before + 1) % (MaxFrameCount + 1))
    /\ (clock.pc # "idle" ~> clock.returned)

\* wait_frame has returned after two polls or more that each came back
\* with an event.
C17_Witness ==
    /\ clock.returned
    /\ clock.polls = 2
    /\ clock.events = 2
    /\ time_limit > 0
    /\ frame_count = clock.frame_before + 1

----------------------------------------------------------------------------
(* The cached `empty` flag: fill, check_empty, is_empty. *)

EmptyPixels == {pxl(NUL), pxl(HASH)}

\* A screen as one of its constructors leaves it.
InitEmpty ==
    /\ \E w \in 0..MaxTextDim, h \in 0..MaxTextDim :
          scr \in {new_empty(w, h)} \cup {new_fill(w, h, p) : p \in EmptyPixels}
    /\ pre = scr
    /\ call = NoCall
    /\ ret = NoRet
    /\ EngineIdle
    /\ KeysIdle
    /\ EnvIdle

PutPxl ==
    \E x \in 0..(scr.width - 1), y \in 0..(scr.height - 1), p \in EmptyPixels :
       /\ call' = [op |-> "set_pxl", a |-> <<x, y>>, pixel |-> p]
       /\ pre' = scr
       /\ scr' = set_pxl(scr, x, y, p)
       /\ ret' = NoRet
       /\ UNCHANGED <<engineVars, keyVars, envVars>>

FillScreen ==
    \E p \in EmptyPixels :
       /\ call' = [op |-> "fill", pixel |-> p]
       /\ pre' = scr
       /\ scr' = fill(scr, p)
       /\ ret' = NoRet
       /\ UNCHANGED <<engineVars, keyVars, envVars>>

CheckEmpty ==
    /\ call' = [op |-> "check_empty"]
    /\ pre' = scr
    /\ scr' = check_empty(scr)
    /\ ret' = [kind |-> "bool", value |-> is_empty(check_empty(scr))]
    /\ UNCHANGED <<engineVars, keyVars, envVars>>

NextEmpty ==
    \/ PutPxl
    \/ FillScreen
    \/ CheckEmpty

SpecEmpty == InitEmpty /\ [][NextEmpty]_vars

\* Every cell of the screen holds the NUL character.
EveryCellNul(s) ==
    \A x \in 0..(s.width - 1), y \in 0..(s.height - 1) : Cell(s, x, y).chr = NUL

\* C20. Right after fill(p) or check_empty(), is_empty() is TRUE exactly
\* when every cell of the screen holds NUL, on a screen of any size: fill
\* sets the flag to "p's character is NUL", check_empty scans the cells,
\* stores the answer in the flag and returns it.
C20_IsEmptyAfterFillOrCheck ==
    /\ call.op = "fill" =>
          /\ is_empty(scr) = (call.pixel.chr = NUL)
          /\ is_empty(scr) = EveryCellNul(scr)
    /\ call.op = "check_empty" =>
          /\ scr.screen = pre.screen
          /\ ret = [kind |-> "bool", value |-> EveryCellNul(pre)]
          /\ is_empty(scr) = EveryCellNul(scr)

----------------------------------------------------------------------------
(* Forms: the validation constraints. A character is a one-character
   string, a String a sequence of characters. *)

Digits  == {"0", "1", "2", "3", "4", "5", "6", "7", "8", "9"}
Letters == {"d", "e", "h", "l", "o", "r", "w"}

\* chr.is_digit(10)
is_digit(chr) == chr \in Digits

\* chr.is_alphanumeric(), over the characters the model uses
is_alphanumeric(chr) == chr \in Digits \cup Letters

\* FormValue
FormNothing        == [kind |-> "Nothing"]
FormBoolean(b)     == [kind |-> "Boolean", flag |-> b]
FormIndex(i)       == [kind |-> "Index", index |-> i]
FormString(value)  == [kind |-> "String", value |-> value]
FormList(entries)  == [kind |-> "List", list |-> entries]
FormVec(entries)   == [kind |-> "Vec", vec |-> entries]
\* a HashMap<String, FormValue>: a function from its keys
FormMap(entries)   == [kind |-> "Map", entries |-> entries]

\* The entries of a Map, a List (each one as a String) or a Vec, as a set:
\* `all` goes through them and the order does not matter.
Entries(output) ==
    IF output.kind = "Map"
    THEN {output.entries[k] : k \in DOMAIN output.entries}
    ELSE IF output.kind = "List"
    THEN {FormString(output.list[i]) : i \in DOMAIN output.list}
    ELSE {output.vec[i] : i \in DOMAIN output.vec}

\* Integer::validate on a String
integer_string(value) ==
    IF Len(value) = 0 THEN FALSE
    ELSE IF ~is_digit(value[1]) /\ value[1] # "-" /\ value[1] # "+" THEN FALSE
    ELSE \A i \in 2..Len(value) : is_digit(value[i])

\* FormConstraint::validate, for Integer, Alphanumeric, Not, AnyOf, AllOf
RECURSIVE validate(_, _)
validate(self, output) ==
    CASE self.kind = "Integer" ->
            IF output.kind \in {"Nothing", "Boolean", "Index"} THEN TRUE
            ELSE IF output.kind = "String" THEN integer_string(output.value)
            ELSE \A x \in Entries(output) : validate(self, x)
      [] self.kind = "Alphanumeric" ->
            IF output.kind = "String"
            THEN \A i \in 1..Len(output.value) : is_alphanumeric(output.value[i])
            ELSE IF output.kind \in {"Map", "List", "Vec"}
            THEN \A x \in Entries(output) : validate(self, x)
            ELSE FALSE
      [] self.kind = "Not" -> ~validate(self.constraint, output)
      [] self.kind = "AnyOf" ->
            \E i \in DOMAIN self.constraints : validate(self.constraints[i], output)
      [] self.kind = "AllOf" ->
            \A i \in DOMAIN self.constraints : validate(self.constraints[i], output)

Integer      == [kind |-> "Integer"]
Alphanumeric == [kind |-> "Alphanumeric"]
Not(constraint)    == [kind |-> "Not", constraint |-> constraint]
AnyOf(constraints) == [kind |-> "AnyOf", constraints |-> constraints]
AllOf(constraints) == [kind |-> "AllOf", constraints |-> constraints]

MaxFormLen == 3

\* The strings of the tests of numbers.rs and logic.rs
HelloWorld == <<"h", "e", "l", "l", "o", ",", " ", "w", "o", "r", "l", "d", "!">>
TestStrings ==
    {HelloWorld, <<"3", "7">>, <<"-", "3", "5">>, <<"3", ".", "5">>,
     <<"3", "e", "-", "5">>, <<"7", "3", "4">>, <<"!", "7", "3", "4">>,
     <<"-", "3", ".", "5">>}

FormChars   == {"3", "+", "-", ".", "e"}
FormStrings == SeqsUpTo(FormChars, MaxFormLen) \cup TestStrings

\* What a Map, a Vec or a List holds in the model
FewStrings == {<<>>, <<"3", "7">>, <<"3", ".", "5">>, <<"-">>}
FewValues  == {FormNothing} \cup {FormString(q) : q \in FewStrings}
FormKeys   == {"1", "2"}

FormValues ==
    {FormNothing, FormBoolean(FALSE), FormIndex(0)}
    \cup {FormString(q) : q \in FormStrings}
    \cup {FormMap(f) : f \in UNION {[K -> FewValues] : K \in SUBSET FormKeys}}
    \cup {FormVec(v) : v \in SeqsUpTo(FewValues, 2)}
    \cup {FormList(v) : v \in SeqsUpTo(FewStrings, 2)}

FormConstraints ==
    {Integer, Alphanumeric, Not(Integer),
     AllOf(<<>>), AllOf(<<Integer>>), AllOf(<<Alphanumeric, Integer>>),
     AllOf(<<Integer, Not(Alphanumeric)>>),
     AnyOf(<<Alphanumeric, Integer>>)}

\* A constraint and a value to validate are given.
InitForms ==
    /\ call \in {[op |-> "form", self |-> c, output |-> v] :
                    c \in FormConstraints, v \in FormValues}
    /\ ret = NoRet
    /\ scr = new(0, 0)
    /\ pre = new(0, 0)
    /\ EngineIdle
    /\ KeysIdle
    /\ EnvIdle

Validate ==
    /\ call.op = "form"
    /\ call' = [call EXCEPT !.op = "validate"]
    /\ ret' = [kind |-> "bool", value |-> validate(call.self, call.output)]
    /\ UNCHANGED <<scr, pre, engineVars, keyVars, envVars>>

NextForms == Validate

SpecForms == InitForms /\ [][NextForms]_vars

\* An optional sign, then one or more decimal digits.
SignedDigits(value) ==
    LET digits == IF Len(value) > 0 /\ value[1] \in {"+", "-"}
                  THEN SubSeq(value, 2, Len(value)) ELSE value
    IN /\ Len(digits) >= 1
       /\ \A i \in 1..Len(digits) : digits[i] \in Digits

\* The reference of C21, for Nothing, a String, and a Map of those.
RefInteger(output) ==
    LET leaf(x) == IF x.kind = "Nothing" THEN TRUE ELSE SignedDigits(x.value)
    IN IF output.kind = "Map"
       THEN \A k \in DOMAIN output.entries : leaf(output.entries[k])
       ELSE leaf(output)

\* C21. Integer validates a String exactly when it is an optional '+' or
\* '-' followed by one or more decimal digits; Nothing validates; a Map
\* validates iff every entry does.
C21_IntegerValidate ==
    (/\ call.op = "validate"
     /\ call.self = Integer
     /\ call.output.kind \in {"Nothing", "String", "Map"})
    => ret.value = RefInteger(call.output)

\* C22. AllOf is the logical AND of its constraints, and
\* AllOf[Alphanumeric, Integer] validates Nothing and "734" and rejects "",
\* "hello, world!" and "!734".
C22_AllOf ==
    (call.op = "validate" /\ call.self.kind = "AllOf")
    => /\ ret.value = (\A i \in DOMAIN call.self.constraints :
                          validate(call.self.constraints[i], call.output))
       /\ call.self = AllOf(<<Alphanumeric, Integer>>) =>
             /\ call.output \in {FormNothing, FormString(<<"7", "3", "4">>)}
                   => ret.value
             /\ call.output \in {FormString(<<>>), FormString(HelloWorld),
                                 FormString(<<"!", "7", "3", "4">>)}
                   => ~ret.value

----------------------------------------------------------------------------
(* poll: one event per call, Event::Frame when the frame is over. *)

\* clock, for poll: where the call stands, the time since `instant`, the
\* last measure, the deadline of the running event::poll, the frame counter
\* at the call, whether the frame was over at the call, whether the call
\* reset `instant`.
NoPoll ==
    [pc |-> "idle", now |-> 0, elapsed_time |-> 0, deadline |-> 0,
     frame_before |-> 0, late |-> FALSE, restarted |-> FALSE]

\* remaining_time of poll: zero once the frame is over.
remaining_time(limit, elapsed_time) ==
    IF limit > elapsed_time THEN limit - elapsed_time ELSE from_millis(0)

InitPoll ==
    /\ time_limit \in {from_millis(ms) : ms \in 0..MaxLimitMs}
    /\ frame_count \in 0..MaxFrameCount
    /\ clock = NoPoll
    /\ terminal = <<0, 0>>
    /\ ScreenIdle
    /\ EngineIdle
    /\ KeysIdle

\* poll is called: elapsed_time is measured.
PollBegin ==
    /\ clock.pc = "idle"
    /\ clock' = [clock EXCEPT !.pc = "loop", !.elapsed_time = clock.now,
                              !.frame_before = frame_count,
                              !.late = (clock.now >= time_limit),
                              !.restarted = FALSE]
    /\ ret' = NoRet
    /\ UNCHANGED <<scr, pre, call, engineVars, keyVars, terminal, time_limit,
                   frame_count>>

\* The head of the loop: the timeout is computed, with a remainder by
\* time_limit.as_millis() that panics when that is zero, and event::poll
\* is called.
PollLoop ==
    /\ clock.pc = "loop"
    /\ clock' =
          IF as_millis(time_limit) = 0
          THEN [clock EXCEPT !.pc = "panicked"]
          ELSE LET timeout ==
                     from_millis(as_millis(remaining_time(time_limit,
                                                          clock.elapsed_time))
                                 % as_millis(time_limit))
               IN [clock EXCEPT !.pc = "poll",
                                !.deadline = Min(clock.now + timeout, ClockCap)]
    /\ UNCHANGED <<screenVars, engineVars, keyVars, terminal, time_limit, frame_count>>

\* event::poll finds an event, at once or before its timeout, and
\* event::read gives a Key, a Mouse or a Resize event: poll returns it.
PollReturnsEvent ==
    /\ clock.pc = "poll"
    /\ \E event \in {"Key", "Mouse", "Resize"} :
          ret' = [kind |-> "Event", value |-> event]
    /\ clock' = [clock EXCEPT !.pc = "idle"]
    /\ UNCHANGED <<scr, pre, call, engineVars, keyVars, terminal, time_limit,
                   frame_count>>

\* elapsed_time is measured after event::poll: the loop goes on, or is left
\* when the frame is over.
Measured ==
    clock' = [clock EXCEPT !.elapsed_time = clock.now,
                           !.pc = IF time_limit <= clock.now THEN "frame"
                                  ELSE "loop"]

\* event::poll finds an event that poll passes over (focus, paste), or
\* event::poll or event::read fails.
PollPassesOver ==
    /\ clock.pc = "poll"
    /\ Measured
    /\ UNCHANGED <<screenVars, engineVars, keyVars, terminal, time_limit, frame_count>>

\* event::poll returns false once its timeout has passed.
PollTimedOut ==
    /\ clock.pc = "poll"
    /\ clock.now >= clock.deadline
    /\ Measured
    /\ UNCHANGED <<screenVars, engineVars, keyVars, terminal, time_limit, frame_count>>

\* After the loop: instant is reset, the frame is counted (wrapping) and
\* Event::Frame is returned.
PollReturnsFrame ==
    /\ clock.pc = "frame"
    /\ clock' = [clock EXCEPT !.pc = "idle", !.now = 0, !.restarted = TRUE]
    /\ frame_count' = (frame_count + 1) % (MaxFrameCount + 1)
    /\ ret' = [kind |-> "Event", value |-> "Frame"]
    /\ UNCHANGED <<scr, pre, call, engineVars, keyVars, terminal, time_limit>>

NextPoll ==
    \/ Tick
    \/ PollBegin
    \/ PollLoop
    \/ PollReturnsEvent
    \/ PollPassesOver
    \/ PollTimedOut
    \/ PollReturnsFrame

SpecPoll == InitPoll /\ [][NextPoll]_vars

\* C30. For every frame duration init accepts, poll never panics; a call
\* made when the frame budget has elapsed returns Event::Frame, whatever
\* events arrive; a call that returns Event::Frame has counted the frame
\* (by one, wrapping) and restarted the frame timer, and a call that
\* returns Key, Mouse or Resize has left both as they were.
C30_PollReturnsFrame ==
    /\ clock.pc # "panicked"
    /\ (clock.pc = "idle" /\ ret # NoRet) =>
          /\ clock.late => ret.value = "Frame"
          /\ ret.value = "Frame" =>
                /\ frame_count = (clock.frame_before + 1) % (MaxFrameCount + 1)
                /\ clock.restarted
          /\ ret.value # "Frame" =>
                /\ frame_count = clock.frame_before
                /\ ~clock.restarted

====
